---- MODULE Spec2Model ----
(***************************************************************************)
(* Model of the Deno LiteSVM client primitives (web3.ts): base-58 address  *)
(* codec, compact length prefix, message compilation, wire serialization   *)
(* and the legacy / versioned transaction builders.                        *)
(*                                                                         *)
(* Bytes are naturals 0..255, byte arrays are sequences of bytes, texts    *)
(* are sequences of one-character strings.  A BigInt is the sequence of    *)
(* its base-256 limbs, most significant first, zero being the empty        *)
(* sequence.  A thrown error is a record [ok |-> FALSE, error |-> text].   *)
(***************************************************************************)
EXTENDS Integers, Sequences, FiniteSets, TLC

VARIABLES
    msg,        \* TransactionMessage: payerKey, recentBlockhash, instructions
    compiled,   \* MessageV0.#compiled of the message compiled last, or None
    permuted,   \* CompiledMessage of a reordering of msg.instructions, or None
    tx,         \* the Transaction / VersionedTransaction under construction
    calls,      \* sign() invocations in flight (awaiting Promise.all)
    ret,        \* outcome of the operation invoked last
    signed,     \* history: what the sign() that completed last has signed
    arg,        \* argument of the codec function under examination
    accounts,   \* the engine's account store behind the LiteSvm handle
    rpc         \* request of the remote transport awaiting its response

vars == <<msg, compiled, permuted, tx, calls, ret, signed, arg, accounts, rpc>>

None == [none |-> TRUE]

\* ret before any operation was invoked
NoCall == [op |-> "none"]

----------------------------------------------------------------------------
(* Bounds of the model *)

MaxIx == 2          \* instructions per message

----------------------------------------------------------------------------
(* Sequence helpers *)

Range(s) == {s[i] : i \in DOMAIN s}

Front(s) == SubSeq(s, 1, Len(s) - 1)

Last(s) == s[Len(s)]

Zeros(n) == [i \in 1..n |-> 0]

RECURSIVE Flatten(_)
Flatten(ss) == IF ss = <<>> THEN <<>> ELSE Head(ss) \o Flatten(Tail(ss))

\* Uint8Array.from(parts): every element is stored modulo 256.
Uint8ArrayFrom(parts) == [i \in DOMAIN parts |-> parts[i] % 256]

----------------------------------------------------------------------------
(* BigInt arithmetic on base-256 limbs *)

\* The limbs without leading zero limbs.
StripZeros(v) ==
    LET nz == {i \in DOMAIN v : v[i] # 0}
    IN  IF nz = {} THEN <<>>
        ELSE SubSeq(v, CHOOSE i \in nz : \A j \in nz : i <= j, Len(v))

RECURSIVE LongDiv(_, _, _, _)
\* Schoolbook division of the limbs v by d, entered with the quotient limbs q
\* and the remainder r of the limbs before them.
LongDiv(v, d, q, r) ==
    IF v = <<>> THEN [quot |-> StripZeros(q), rem |-> r]
    ELSE LongDiv(Tail(v), d, Append(q, (r * 256 + v[1]) \div d), (r * 256 + v[1]) % d)

\* value / d and value % d for a divisor d <= 256
BigDivMod(v, d) == LongDiv(v, d, <<>>, 0)

RECURSIVE BigMulAdd(_, _, _)
\* value * m + a for m <= 256: schoolbook from the last limb, a being the carry
BigMulAdd(v, m, a) ==
    IF v = <<>>
    THEN IF a = 0 THEN <<>>
         ELSE BigMulAdd(<<>>, m, a \div 256) \o <<a % 256>>
    ELSE BigMulAdd(Front(v), m, (Last(v) * m + a) \div 256)
         \o <<(Last(v) * m + a) % 256>>

----------------------------------------------------------------------------
(* Base-58 codec *)

ALPHABET ==
    << "1", "2", "3", "4", "5", "6", "7", "8", "9",
       "A", "B", "C", "D", "E", "F", "G", "H", "J", "K", "L", "M", "N",
       "P", "Q", "R", "S", "T", "U", "V", "W", "X", "Y", "Z",
       "a", "b", "c", "d", "e", "f", "g", "h", "i", "j", "k", "m", "n",
       "o", "p", "q", "r", "s", "t", "u", "v", "w", "x", "y", "z" >>

BASE == Len(ALPHABET)

\* ALPHABET_MAP[ch] is the 0-based position of ch; other characters are absent.
ALPHABET_MAP == [ch \in Range(ALPHABET) |-> (CHOOSE i \in 1..BASE : ALPHABET[i] = ch) - 1]

\* while (zeros < s.length && s[zeros] === x) zeros++
LeadingCount(s, x) ==
    LET other == {i \in DOMAIN s : s[i] # x}
    IN  IF other = {} THEN Len(s)
        ELSE (CHOOSE i \in other : \A j \in other : i <= j) - 1

\* for (const b of bytes) value = (value << 8) + b: every byte is appended as
\* the next limb of the value.
BytesToBig(bytes) == StripZeros(bytes)

RECURSIVE EncodeDigits(_)
\* while (value > 0) { encoded = ALPHABET[value % BASE] + encoded; value /= BASE }
EncodeDigits(value) ==
    IF value = <<>> THEN <<>>
    ELSE Append(EncodeDigits(BigDivMod(value, BASE).quot),
                ALPHABET[BigDivMod(value, BASE).rem + 1])

\* Mutant: the leading zero bytes are not written as '1' characters.
base58EncodeNoZeros(bytes) == EncodeDigits(BytesToBig(bytes))

base58Encode(bytes) ==
    IF Len(bytes) = 0 THEN <<>>
    ELSE [i \in 1..LeadingCount(bytes, 0) |-> "1"]
         \o EncodeDigits(BytesToBig(bytes))

RECURSIVE DecodeAcc(_)
\* for (const ch of value) acc = acc * BASE + BigInt(ALPHABET_MAP[ch])
DecodeAcc(text) ==
    IF text = <<>> THEN <<>>
    ELSE BigMulAdd(DecodeAcc(Front(text)), BASE, ALPHABET_MAP[Last(text)])

RECURSIVE BigToBytesLE(_)
\* while (acc > 0) { bytes.push(acc % 256); acc /= 256 }
BigToBytesLE(acc) ==
    IF acc = <<>> THEN <<>>
    ELSE <<BigDivMod(acc, 256).rem>> \o BigToBytesLE(BigDivMod(acc, 256).quot)

Reverse(s) == [i \in 1..Len(s) |-> s[Len(s) + 1 - i]]

\* The digit lookup throws at the first character outside the alphabet.
base58Decode(value) ==
    IF Len(value) = 0 THEN [ok |-> TRUE, bytes |-> <<>>]
    ELSE IF \E i \in DOMAIN value : value[i] \notin DOMAIN ALPHABET_MAP
    THEN [ok |-> FALSE, error |-> "invalid base58 character"]
    ELSE [ok |-> TRUE,
          bytes |-> Reverse(BigToBytesLE(DecodeAcc(value))
                            \o Zeros(LeadingCount(value, "1")))]

----------------------------------------------------------------------------
(* Compact length prefix and fixed-width integers *)

\* rem & 0x7f and rem >>= 7 work on 32-bit signed integers: for an int32 rem
\* they are rem % 128 and the floor of rem / 128.
RECURSIVE shortvecEncode(_)
shortvecEncode(length) ==
    LET elem == length % 128
        rem == length \div 128
    IN  IF rem = 0 THEN <<elem>>
        ELSE <<elem + 128>> \o shortvecEncode(rem)

\* A JavaScript number n >= 0 is written [hi, lo] with n = hi * 2^16 + lo and
\* lo < 2^16.  ToInt32 keeps the low 32 bits and reads them as signed.
ToInt32(number) ==
    LET hi == number.hi % 65536
    IN  IF hi >= 32768 THEN (hi - 65536) * 65536 + number.lo
        ELSE hi * 65536 + number.lo

\* shortvecEncode on any number: the first & and >>= bring the number to
\* int32.  From a negative rem the shift never reaches 0 (-1 >> 7 is -1): the
\* loop pushes bytes until the array cannot grow, and the call never returns
\* an encoding.
shortvecEncodeNumber(number) ==
    IF ToInt32(number) < 0
    THEN [ok |-> FALSE, error |-> "out of memory"]
    ELSE [ok |-> TRUE, bytes |-> shortvecEncode(ToInt32(number))]

RECURSIVE toLittleEndian(_, _)
toLittleEndian(value, bytes) ==
    IF bytes = 0 THEN <<>>
    ELSE <<value % 256>> \o toLittleEndian(value \div 256, bytes - 1)

----------------------------------------------------------------------------
(* PublicKey: a 32-byte value, modelled by its bytes *)

PUBKEY_BYTES == 32

SYSTEM_PROGRAM_ID == [i \in 1..32 |-> "1"]

\* Mutant: the length of the decoded text is not looked at.
PublicKeyFromTextAnyLength(input) ==
    LET d == base58Decode(input)
    IN  IF ~d.ok THEN d ELSE [ok |-> TRUE, key |-> d.bytes]

\* new PublicKey(text)
PublicKeyFromText(input) ==
    LET d == base58Decode(input)
    IN  IF ~d.ok THEN d
        ELSE IF Len(d.bytes) # PUBKEY_BYTES
             THEN [ok |-> FALSE, error |-> "PublicKey must be 32 bytes"]
             ELSE [ok |-> TRUE, key |-> d.bytes]

\* new PublicKey(bytes)
PublicKeyFromBytes(input) ==
    IF Len(input) # PUBKEY_BYTES
    THEN [ok |-> FALSE, error |-> "PublicKey must be 32 bytes"]
    ELSE [ok |-> TRUE, key |-> input]

toBytes(pk) == pk

toBase58(pk) == base58Encode(pk)

----------------------------------------------------------------------------
(* SystemProgram *)

SystemProgramId == PublicKeyFromText(SYSTEM_PROGRAM_ID).key

TRANSFER_INDEX == 2

\* Mutant: the recipient is declared a signer as well.
SystemProgramTransferBothSign(fromPubkey, toPubkey, lamports) ==
    [programId |-> SystemProgramId,
     keys |-> << [pubkey |-> fromPubkey, isSigner |-> TRUE, isWritable |-> TRUE],
                 [pubkey |-> toPubkey, isSigner |-> TRUE, isWritable |-> TRUE] >>,
     data |-> toLittleEndian(TRANSFER_INDEX, 4) \o toLittleEndian(lamports, 8)]

SystemProgramTransfer(fromPubkey, toPubkey, lamports) ==
    [programId |-> SystemProgramId,
     keys |-> << [pubkey |-> fromPubkey, isSigner |-> TRUE, isWritable |-> TRUE],
                 [pubkey |-> toPubkey, isSigner |-> FALSE, isWritable |-> TRUE] >>,
     data |-> toLittleEndian(TRANSFER_INDEX, 4) \o toLittleEndian(lamports, 8)]

----------------------------------------------------------------------------
(* compile(): account merge, ordering, header and index rewriting *)

\* Mutant: a repeated address is stored again instead of being merged.
addMetaNoMerge(metas, meta) ==
    Append(metas, [key |-> base58Encode(meta.pubkey), pubkey |-> meta.pubkey,
                   isSigner |-> meta.isSigner, isWritable |-> meta.isWritable])

\* Mutant: a repeated address takes the flags of its latest occurrence.
addMetaOverwrite(metas, meta) ==
    LET key == base58Encode(meta.pubkey)
        hit == {i \in DOMAIN metas : metas[i].key = key}
    IN  IF hit = {}
        THEN Append(metas, [key |-> key, pubkey |-> meta.pubkey,
                            isSigner |-> meta.isSigner,
                            isWritable |-> meta.isWritable])
        ELSE LET i == CHOOSE j \in hit : TRUE
             IN  [metas EXCEPT ![i].isSigner = meta.isSigner,
                               ![i].isWritable = meta.isWritable]

\* metas is the Map of compile(), kept as the sequence of its entries in
\* insertion order; an entry is the map key together with the stored meta.
addMeta(metas, meta) ==
    LET key == toBase58(meta.pubkey)
        hit == {i \in DOMAIN metas : metas[i].key = key}
    IN  IF hit = {}
        THEN Append(metas, [key |-> key, pubkey |-> meta.pubkey,
                            isSigner |-> meta.isSigner,
                            isWritable |-> meta.isWritable])
        ELSE LET i == CHOOSE j \in hit : TRUE
             IN  [metas EXCEPT ![i].isSigner = @ \/ meta.isSigner,
                               ![i].isWritable = @ \/ meta.isWritable]

\* The addMeta calls of one instruction: the program id, then its keys.
InstructionMetas(ix) ==
    << [pubkey |-> ix.programId, isSigner |-> FALSE, isWritable |-> FALSE] >>
    \o ix.keys

\* Mutant: the fee payer is merged after the instructions instead of first.
MetaCallsPayerLast(message) ==
    Flatten([i \in DOMAIN message.instructions |->
                InstructionMetas(message.instructions[i])])
    \o << [pubkey |-> message.payerKey, isSigner |-> TRUE, isWritable |-> TRUE] >>

\* All addMeta calls of compile() in the order they are made.
MetaCalls(message) ==
    << [pubkey |-> message.payerKey, isSigner |-> TRUE, isWritable |-> TRUE] >>
    \o Flatten([i \in DOMAIN message.instructions |->
                    InstructionMetas(message.instructions[i])])

RECURSIVE AddMetas(_, _)
AddMetas(metas, metaCalls) ==
    IF metaCalls = <<>> THEN metas
    ELSE AddMetas(addMeta(metas, Head(metaCalls)), Tail(metaCalls))

\* Array.from(metas.values())
MetasArr(message) == AddMetas(<<>>, MetaCalls(message))

IsSigner(m) == m.isSigner
NonSigner(m) == ~m.isSigner
IsWritable(m) == m.isWritable
ReadOnly(m) == ~m.isWritable

OrderMetas(metasArr) ==
    LET signers == SelectSeq(metasArr, IsSigner)
        nonSigners == SelectSeq(metasArr, NonSigner)
    IN  SelectSeq(signers, IsWritable) \o SelectSeq(signers, ReadOnly)
        \o SelectSeq(nonSigners, IsWritable) \o SelectSeq(nonSigners, ReadOnly)

\* Mutant: readonlyUnsigned counts every readonly account, signers included.
MessageHeaderAllReadonly(metasArr) ==
    LET signers == SelectSeq(metasArr, IsSigner)
    IN  [requiredSignatures |-> Len(signers),
         readonlySigned |-> Len(SelectSeq(signers, ReadOnly)),
         readonlyUnsigned |-> Len(SelectSeq(metasArr, ReadOnly))]

MessageHeader(metasArr) ==
    LET signers == SelectSeq(metasArr, IsSigner)
        nonSigners == SelectSeq(metasArr, NonSigner)
    IN  [requiredSignatures |-> Len(signers),
         readonlySigned |-> Len(SelectSeq(signers, ReadOnly)),
         readonlyUnsigned |-> Len(SelectSeq(nonSigners, ReadOnly))]

Undefined == [undefined |-> TRUE]

\* indexFor.get(key): ordered.forEach((meta, idx) => indexFor.set(key, idx))
IndexForGet(ordered, key) ==
    LET at == {i \in DOMAIN ordered : ordered[i].key = key}
    IN  IF at = {} THEN Undefined
        ELSE (CHOOSE i \in at : \A j \in at : j <= i) - 1

\* Mutant: the account indices are written in table order, not in the
\* order of the instruction's keys.
CompileInstructionSorted(ordered, ix) ==
    LET idx == [j \in DOMAIN ix.keys |->
                   IndexForGet(ordered, base58Encode(ix.keys[j].pubkey))]
        Rank(j) == Cardinality({k \in DOMAIN idx :
                       idx[k] < idx[j] \/ (idx[k] = idx[j] /\ k <= j)})
    IN  [programIdIndex |-> IndexForGet(ordered, base58Encode(ix.programId)),
         accounts |-> [r \in DOMAIN idx |-> idx[CHOOSE j \in DOMAIN idx : Rank(j) = r]],
         data |-> ix.data]

CompileInstruction(ordered, ix) ==
    [programIdIndex |-> IndexForGet(ordered, toBase58(ix.programId)),
     accounts |-> [j \in DOMAIN ix.keys |->
                      IndexForGet(ordered, toBase58(ix.keys[j].pubkey))],
     data |-> ix.data]

compile(message) ==
    LET metasArr == MetasArr(message)
        ordered == OrderMetas(metasArr)
    IN  [accountKeys |-> [i \in DOMAIN ordered |-> ordered[i].pubkey],
         header |-> MessageHeader(metasArr),
         recentBlockhash |-> message.recentBlockhash,
         instructions |-> [i \in DOMAIN message.instructions |->
                              CompileInstruction(ordered, message.instructions[i])]]

\* What compile() writes to the objects of its caller.  Each entry of metas is
\* an object; ref names the caller's object an addMeta call was handed: the key
\* j of instruction i as <<i, j>>, None for the literals made for the fee payer
\* and for a program id.  The flags of a repeated address are written to the
\* stored object, and to the caller's object when the stored one is that one.

\* Mutant: metas.set(key, meta), the Map holds the object it was handed.
StoredObjectIsArgument(ref) == ref

\* metas.set(key, { ...meta }): the Map holds a fresh copy, no object of the
\* caller.
StoredObject(ref) == None

\* The objects handed to the addMeta calls, in the order of MetaCalls.
MetaRefs(message) ==
    << None >>
    \o Flatten([i \in DOMAIN message.instructions |->
                    << None >> \o [j \in DOMAIN message.instructions[i].keys |-> <<i, j>>]])

RECURSIVE WriteMetas(_, _, _, _)
WriteMetas(message, stored, metaCalls, refs) ==
    IF metaCalls = <<>> THEN message
    ELSE LET meta == Head(metaCalls)
             key == toBase58(meta.pubkey)
             hit == {i \in DOMAIN stored : stored[i].key = key}
         IN  IF hit = {}
             THEN WriteMetas(message,
                             Append(stored, [key |-> key, isSigner |-> meta.isSigner,
                                             isWritable |-> meta.isWritable,
                                             object |-> StoredObject(Head(refs))]),
                             Tail(metaCalls), Tail(refs))
             ELSE LET i == CHOOSE j \in hit : TRUE
                      isSigner == stored[i].isSigner \/ meta.isSigner
                      isWritable == stored[i].isWritable \/ meta.isWritable
                      at == stored[i].object
                  IN  WriteMetas(
                          IF at = None THEN message
                          ELSE [message EXCEPT
                                   !.instructions[at[1]].keys[at[2]].isSigner = isSigner,
                                   !.instructions[at[1]].keys[at[2]].isWritable = isWritable],
                          [stored EXCEPT ![i].isSigner = isSigner,
                                         ![i].isWritable = isWritable],
                          Tail(metaCalls), Tail(refs))

\* The caller's message object once compile(message) has returned.
MessageAfterCompile(message) ==
    WriteMetas(message, <<>>, MetaCalls(message), MetaRefs(message))

----------------------------------------------------------------------------
(* Wire serialization of a compiled message *)

SerializeInstruction(ix) ==
    <<ix.programIdIndex>>
    \o shortvecEncode(Len(ix.accounts)) \o ix.accounts
    \o shortvecEncode(Len(ix.data)) \o ix.data

\* Mutant: the blockhash is written before the account table.
serializeMessageBlockhashFirst(c) ==
    LET head == << c.header.requiredSignatures % 256,
                   c.header.readonlySigned % 256,
                   c.header.readonlyUnsigned % 256 >>
        keys == shortvecEncode(Len(c.accountKeys))
                \o Flatten([i \in DOMAIN c.accountKeys |-> toBytes(c.accountKeys[i])])
        blockhashBytes == base58Decode(c.recentBlockhash)
        ixs == shortvecEncode(Len(c.instructions))
               \o Flatten([i \in DOMAIN c.instructions |->
                              SerializeInstruction(c.instructions[i])])
    IN  IF ~blockhashBytes.ok THEN blockhashBytes
        ELSE IF Len(blockhashBytes.bytes) # 32
        THEN [ok |-> FALSE, error |-> "invalid blockhash length"]
        ELSE [ok |-> TRUE,
              bytes |-> Uint8ArrayFrom(head \o blockhashBytes.bytes \o keys \o ixs)]

serializeMessage(c) ==
    LET head == << c.header.requiredSignatures % 256,
                   c.header.readonlySigned % 256,
                   c.header.readonlyUnsigned % 256 >>
        keys == shortvecEncode(Len(c.accountKeys))
                \o Flatten([i \in DOMAIN c.accountKeys |-> toBytes(c.accountKeys[i])])
        blockhashBytes == base58Decode(c.recentBlockhash)
        ixs == shortvecEncode(Len(c.instructions))
               \o Flatten([i \in DOMAIN c.instructions |->
                              SerializeInstruction(c.instructions[i])])
    IN  IF ~blockhashBytes.ok THEN blockhashBytes
        ELSE IF Len(blockhashBytes.bytes) # 32
        THEN [ok |-> FALSE, error |-> "invalid blockhash length"]
        ELSE [ok |-> TRUE,
              bytes |-> Uint8ArrayFrom(head \o keys \o blockhashBytes.bytes \o ixs)]

V0_FLAG == 128

\* Mutant: the versioned message without its version byte.
MessageV0SerializeNoFlag(c) == serializeMessage(c)

\* Mutant: the version byte carries a version number other than 0.
MessageV0SerializeVersionOne(c) ==
    LET m == serializeMessage(c)
    IN  IF ~m.ok THEN m
        ELSE [ok |-> TRUE, bytes |-> <<V0_FLAG + 1>> \o m.bytes]

\* MessageV0.serialize(): the version byte, then the legacy layout
MessageV0Serialize(c) ==
    LET m == serializeMessage(c)
    IN  IF ~m.ok THEN m
        ELSE [ok |-> TRUE, bytes |-> <<V0_FLAG>> \o m.bytes]

----------------------------------------------------------------------------
(* Inputs *)

AddrA == Zeros(31) \o <<1>>
AddrB == Zeros(30) \o <<7, 9>>

Addresses == {AddrA, AddrB, SystemProgramId}

Payers == {AddrA, SystemProgramId}

Programs == {SystemProgramId, AddrB}

AccountMetas == [pubkey : {AddrA, AddrB}, isSigner : BOOLEAN, isWritable : BOOLEAN]

LamportChoices == {258}

\* Instructions a caller hands over: SystemProgram.transfer between any two
\* addresses, an instruction of either program without accounts, and an
\* instruction of the program AddrB with one account.
Instructions ==
    {SystemProgramTransfer(f, t, l) : <<f, t, l>> \in Addresses \X Addresses \X LamportChoices}
    \cup [programId : Programs, keys : {<<>>}, data : {<<9>>}]
    \cup [programId : {AddrB}, keys : {<<m>> : m \in AccountMetas}, data : {<<9>>}]

InstructionLists == UNION {[1..n -> Instructions] : n \in 0..MaxIx}

GoodBlockhash == base58Encode(AddrB)
ShortBlockhash == base58Encode(<<0, 5>>)
LongBlockhash == base58Encode(Zeros(31) \o <<1, 0>>)
BadCharBlockhash == <<"0", "O", "I", "l">>

Blockhashes == {GoodBlockhash, ShortBlockhash, LongBlockhash, BadCharBlockhash}

----------------------------------------------------------------------------
(* TransactionMessage and MessageV0 *)

Idle == <<>>

\* new TransactionMessage({payerKey, recentBlockhash, instructions}); the
\* malformed blockhashes come with at most one instruction.
InitCompile ==
    /\ msg \in [payerKey : Payers, recentBlockhash : Blockhashes,
                instructions : InstructionLists]
    /\ msg.recentBlockhash = GoodBlockhash \/ Len(msg.instructions) <= 1
    /\ compiled = None
    /\ permuted = None
    /\ tx = None
    /\ calls = Idle
    /\ ret = NoCall
    /\ signed = None
    /\ arg = None
    /\ accounts = None
    /\ rpc = None

\* TransactionMessage.compileToV0Message()
CompileToV0Message ==
    /\ compiled = None
    /\ compiled' = compile(msg)
    /\ msg' = MessageAfterCompile(msg)
    /\ ret' = [op |-> "compileToV0Message", ok |-> TRUE]
    /\ UNCHANGED <<permuted, tx, calls, signed, arg, accounts, rpc>>

Permute(s, p) == [i \in DOMAIN s |-> s[p[i]]]

\* The list whose permutation by p is s: the same instruction objects in the
\* order the first message holds them.
Unpermute(s, p) == [i \in DOMAIN s |-> s[CHOOSE j \in DOMAIN s : p[j] = i]]

Perms(n) == {p \in [1..n -> 1..n] : \A i, j \in 1..n : p[i] = p[j] => i = j}

\* compileToV0Message() of a TransactionMessage holding the same
\* instructions in another order
CompilePermutation ==
    /\ compiled # None
    /\ permuted = None
    /\ ret.op = "compileToV0Message"
    /\ \E p \in Perms(Len(msg.instructions)) :
           /\ Permute(msg.instructions, p) # msg.instructions
           /\ permuted' = compile([msg EXCEPT !.instructions = Permute(@, p)])
           /\ msg' = [msg EXCEPT !.instructions =
                         Unpermute(MessageAfterCompile(
                                       [msg EXCEPT !.instructions = Permute(@, p)]).instructions,
                                   p)]
    /\ ret' = [op |-> "compileToV0Message", ok |-> TRUE]
    /\ UNCHANGED <<compiled, tx, calls, signed, arg, accounts, rpc>>

\* MessageV0.serialize()
SerializeV0 ==
    /\ compiled # None
    /\ permuted = None
    /\ ret' = [op |-> "serialize"] @@ MessageV0Serialize(compiled)
    /\ UNCHANGED <<msg, compiled, permuted, tx, calls, signed, arg, accounts, rpc>>

\* serializeMessage(compiled), the legacy layout
SerializeMessage ==
    /\ compiled # None
    /\ permuted = None
    /\ ret' = [op |-> "serializeMessage"] @@ serializeMessage(compiled)
    /\ UNCHANGED <<msg, compiled, permuted, tx, calls, signed, arg, accounts, rpc>>

NextCompile == CompileToV0Message \/ CompilePermutation \/ SerializeV0 \/ SerializeMessage

SpecCompile == InitCompile /\ [][NextCompile]_vars

----------------------------------------------------------------------------
(* Keypair: the public key and the private signing handle *)

Keypairs == { [publicKey |-> AddrA, secret |-> 11], [publicKey |-> AddrB, secret |-> 23] }

\* The keypairs handed to one sign() call: none, or some in any order.
SignerLists ==
    {s \in UNION {[1..n -> Keypairs] : n \in 0..Cardinality(Keypairs)} :
        \A i, j \in DOMAIN s : s[i] = s[j] => i = j}

\* Keypair.sign(message): the 64 signature bytes crypto.subtle.sign answers
\* with, a fixed function of the private key and of the payload.
KeypairSign(kp, message) ==
    [i \in 1..64 |->
        (kp.secret * i + Len(message) + message[1] + message[Len(message)]) % 256]

----------------------------------------------------------------------------
(* Transaction and VersionedTransaction *)

\* The message bytes sign() and serialize() work on: the legacy Transaction
\* compiles its current fields, the VersionedTransaction serializes the
\* MessageV0 it was built with.
MessageBytes(t) ==
    IF t.kind = "legacy"
    THEN serializeMessage(compile([payerKey |-> t.feePayer,
                                   recentBlockhash |-> t.recentBlockhash,
                                   instructions |-> t.instructions]))
    ELSE MessageV0Serialize(t.message)

\* The fields of the transaction its message bytes are made of.
MessageInputs(t) ==
    [feePayer |-> t.feePayer, recentBlockhash |-> t.recentBlockhash,
     instructions |-> t.instructions]

\* signers.map(async (kp) => ...): every request is issued in the call itself.
IssueRequests(signers, message) ==
    [k \in DOMAIN signers |-> [keypair |-> signers[k], state |-> "pending"]]

\* Mutant: the results are collected in the order the requests completed.
PromiseAllAsCompleted(call) ==
    [k \in DOMAIN call.settled |->
        [publicKey |-> call.requests[call.settled[k]].keypair.publicKey,
         signature |-> call.requests[call.settled[k]].signature]]

\* The value Promise.all fulfils with: one entry per request, in request order.
PromiseAll(call) ==
    [k \in DOMAIN call.requests |->
        [publicKey |-> call.requests[k].keypair.publicKey,
         signature |-> call.requests[k].signature]]

AllFulfilled(call) ==
    \A k \in DOMAIN call.requests : call.requests[k].state = "fulfilled"

\* Mutant: serialize() without the check for stored signatures.
SerializeTxUnchecked(t) ==
    LET message == MessageBytes(t)
    IN  IF ~message.ok THEN message
        ELSE [ok |-> TRUE,
              bytes |-> Uint8ArrayFrom(
                  shortvecEncode(Len(t.signatures))
                  \o Flatten([k \in DOMAIN t.signatures |-> t.signatures[k].signature])
                  \o message.bytes)]

\* serialize() of either transaction
SerializeTx(t) ==
    IF Len(t.signatures) = 0
    THEN [ok |-> FALSE, error |-> "transaction not signed"]
    ELSE LET message == MessageBytes(t)
         IN  IF ~message.ok THEN message
             ELSE [ok |-> TRUE,
                   bytes |-> Uint8ArrayFrom(
                       shortvecEncode(Len(t.signatures))
                       \o Flatten([k \in DOMAIN t.signatures |-> t.signatures[k].signature])
                       \o message.bytes)]

TxInstructions ==
    { SystemProgramTransfer(AddrA, AddrB, 258),
      [programId |-> AddrB,
       keys |-> << [pubkey |-> AddrA, isSigner |-> FALSE, isWritable |-> FALSE] >>,
       data |-> <<9>>] }

TxInstructionLists == UNION {[1..n -> TxInstructions] : n \in 0..MaxIx}

TxBlockhashes == {GoodBlockhash, ShortBlockhash}

\* A well-formed blockhash fetched later than GoodBlockhash.
LaterBlockhash == base58Encode(AddrA)

\* new Transaction({feePayer, recentBlockhash}), or
\* new VersionedTransaction(new TransactionMessage({...}).compileToV0Message())
Init ==
    /\ \E bh \in TxBlockhashes :
         \/ tx = [kind |-> "legacy", feePayer |-> AddrA, recentBlockhash |-> bh,
                  instructions |-> <<>>, message |-> None, signatures |-> <<>>]
         \/ \E ixs \in TxInstructionLists :
              tx = [kind |-> "v0", feePayer |-> AddrA, recentBlockhash |-> bh,
                    instructions |-> ixs,
                    message |-> compile([payerKey |-> AddrA, recentBlockhash |-> bh,
                                         instructions |-> ixs]),
                    signatures |-> <<>>]
    /\ calls = Idle
    /\ ret = NoCall
    /\ signed = None
    /\ msg = None
    /\ compiled = None
    /\ permuted = None
    /\ arg = None
    /\ accounts = None
    /\ rpc = None

\* A step in which no call returns to its caller.
NoReturn == [op |-> "pending"]

\* Transaction.add(ix)
Add(ix) ==
    /\ tx.kind = "legacy"
    /\ Len(tx.instructions) < MaxIx
    /\ tx' = [tx EXCEPT !.instructions = Append(@, ix)]
    /\ ret' = [op |-> "add", ok |-> TRUE]
    /\ UNCHANGED <<calls, signed, msg, compiled, permuted, arg, accounts, rpc>>

\* tx.recentBlockhash = bh: the caller assigns the public field.
SetRecentBlockhash(bh) ==
    /\ tx.kind = "legacy"
    /\ tx.recentBlockhash # bh
    /\ tx' = [tx EXCEPT !.recentBlockhash = bh]
    /\ ret' = [op |-> "set", ok |-> TRUE]
    /\ UNCHANGED <<calls, signed, msg, compiled, permuted, arg, accounts, rpc>>

\* sign(...signers) up to its await: the message is compiled and serialized
\* and the signing requests are issued.  A failing serialization rejects the
\* call at once.  limit is the number of calls the caller keeps in flight,
\* lists are the keypair lists the caller hands over.
Sign(limit, lists) ==
    /\ Len(calls) < limit
    /\ LET message == MessageBytes(tx)
       IN  IF ~message.ok
           THEN /\ ret' = [op |-> "sign"] @@ message
                /\ UNCHANGED calls
           ELSE /\ \E signers \in lists :
                       calls' = Append(calls,
                           [signers |-> signers, message |-> message.bytes,
                            requests |-> IssueRequests(signers, message.bytes),
                            settled |-> <<>>, inputs |-> MessageInputs(tx),
                            stored |-> tx.signatures, since |-> signed])
                /\ ret' = NoReturn
    /\ UNCHANGED <<tx, signed, msg, compiled, permuted, arg, accounts, rpc>>

\* Mutant: the new signatures are written over the first of the stored ones.
StoreSignaturesOverwrites(stored, result) ==
    result \o SubSeq(stored, Len(result) + 1, Len(stored))

\* Mutant: the new signatures are pushed onto the stored ones.
StoreSignaturesAppends(stored, result) == stored \o result

\* this.#signatures = await Promise.all(...): the result replaces the list.
StoreSignatures(stored, result) == result

Remove(s, c) == [i \in 1..(Len(s) - 1) |-> IF i < c THEN s[i] ELSE s[i + 1]]

\* The continuation of sign() after its await: Promise.all has fulfilled and
\* its value is stored as the signature list.
SignReturn(c, call) ==
    /\ tx' = [tx EXCEPT !.signatures = StoreSignatures(@, PromiseAll(call))]
    /\ calls' = Remove(calls, c)
    /\ ret' = [op |-> "sign", ok |-> TRUE, signers |-> call.signers,
               message |-> call.message, settled |-> call.settled]
    /\ signed' = [signers |-> call.signers, message |-> call.message,
                  inputs |-> call.inputs]

\* A call without keypairs: Promise.all([]) is fulfilled from the start and
\* the continuation runs as the next job.
SignEmptyReturn(c) ==
    /\ c \in DOMAIN calls
    /\ Len(calls[c].requests) = 0
    /\ SignReturn(c, calls[c])
    /\ UNCHANGED <<msg, compiled, permuted, arg, accounts, rpc>>

\* Request k of call c is fulfilled with the signature; the last one to be
\* fulfilled fulfils Promise.all, and sign() continues in the same turn.
RequestFulfil(c, k) ==
    /\ c \in DOMAIN calls
    /\ k \in DOMAIN calls[c].requests
    /\ calls[c].requests[k].state = "pending"
    /\ LET kp == calls[c].requests[k].keypair
           call == [calls[c] EXCEPT
                       !.requests[k] = [keypair |-> kp, state |-> "fulfilled",
                                        signature |-> KeypairSign(kp, calls[c].message)],
                       !.settled = Append(@, k)]
       IN  IF AllFulfilled(call)
           THEN SignReturn(c, call)
           ELSE /\ calls' = [calls EXCEPT ![c] = call]
                /\ ret' = NoReturn
                /\ UNCHANGED <<tx, signed>>
    /\ UNCHANGED <<msg, compiled, permuted, arg, accounts, rpc>>

\* Mutant: the signatures made before the rejection are stored.
RequestRejectStoresPartial(c, k) ==
    /\ c \in DOMAIN calls
    /\ k \in DOMAIN calls[c].requests
    /\ calls[c].requests[k].state = "pending"
    /\ tx' = [tx EXCEPT !.signatures =
                 [i \in DOMAIN calls[c].settled |->
                     [publicKey |-> calls[c].requests[calls[c].settled[i]].keypair.publicKey,
                      signature |-> calls[c].requests[calls[c].settled[i]].signature]]]
    /\ calls' = Remove(calls, c)
    /\ ret' = [op |-> "sign", ok |-> FALSE, error |-> "signing failed",
               settled |-> calls[c].settled]
    /\ UNCHANGED <<signed, msg, compiled, permuted, arg, accounts, rpc>>

\* Request k of call c is rejected: Promise.all rejects and sign() throws
\* without storing anything.
RequestReject(c, k) ==
    /\ c \in DOMAIN calls
    /\ k \in DOMAIN calls[c].requests
    /\ calls[c].requests[k].state = "pending"
    /\ calls' = Remove(calls, c)
    /\ ret' = [op |-> "sign", ok |-> FALSE, error |-> "signing failed",
               settled |-> calls[c].settled]
    /\ UNCHANGED <<tx, signed, msg, compiled, permuted, arg, accounts, rpc>>

\* serialize()
Serialize ==
    /\ ret' = [op |-> "serialize"] @@ SerializeTx(tx)
    /\ UNCHANGED <<tx, calls, signed, msg, compiled, permuted, arg, accounts, rpc>>

Next ==
    \/ \E ix \in TxInstructions : Add(ix)
    \/ SetRecentBlockhash(LaterBlockhash)
    \/ Sign(1, SignerLists)
    \/ SignEmptyReturn(1)
    \/ \E k \in 1..Cardinality(Keypairs) : RequestFulfil(1, k)
    \/ \E k \in 1..Cardinality(Keypairs) : RequestReject(1, k)
    \/ Serialize

Spec == Init /\ [][Next]_vars

----------------------------------------------------------------------------
(* Two sign() calls in flight on one transaction *)

MaxCalls == 2   \* sign() calls in flight at the same time

\* A transaction with one transfer, legacy or versioned.
InitSigning ==
    /\ LET input == [payerKey |-> AddrA, recentBlockhash |-> GoodBlockhash,
                     instructions |-> << SystemProgramTransfer(AddrA, AddrB, 258) >>]
       IN  \E kind \in {"legacy", "v0"} :
               tx = [kind |-> kind, feePayer |-> AddrA,
                     recentBlockhash |-> GoodBlockhash,
                     instructions |-> input.instructions,
                     message |-> IF kind = "v0" THEN compile(input) ELSE None,
                     signatures |-> << >>]
    /\ calls = Idle
    /\ ret = NoCall
    /\ signed = None
    /\ msg = None
    /\ compiled = None
    /\ permuted = None
    /\ arg = None
    /\ accounts = None
    /\ rpc = None

\* The keypair lists of the concurrent calls: none, the fee payer's, and
\* both with the fee payer's last.
SigningLists ==
    { << >>,
      << [publicKey |-> AddrA, secret |-> 11] >>,
      << [publicKey |-> AddrB, secret |-> 23], [publicKey |-> AddrA, secret |-> 11] >> }

NextSigning ==
    \/ SetRecentBlockhash(ShortBlockhash)
    \/ Sign(MaxCalls, SigningLists)
    \/ \E c \in 1..MaxCalls : SignEmptyReturn(c)
    \/ \E c \in 1..MaxCalls, k \in 1..Cardinality(Keypairs) : RequestFulfil(c, k)
    \/ \E c \in 1..MaxCalls, k \in 1..Cardinality(Keypairs) : RequestReject(c, k)
    \/ Serialize

SpecSigning == InitSigning /\ [][NextSigning]_vars

----------------------------------------------------------------------------
(* What a message asks of its accounts, read off the caller's input *)

\* Every reference to an address, in the order the message lists them: the
\* fee payer, then per instruction its program and its account references.
References(m) ==
    << [pubkey |-> m.payerKey, isSigner |-> TRUE, isWritable |-> TRUE] >>
    \o Flatten([i \in DOMAIN m.instructions |->
          << [pubkey |-> m.instructions[i].programId,
              isSigner |-> FALSE, isWritable |-> FALSE] >>
          \o m.instructions[i].keys])

Referenced(m) == {r.pubkey : r \in Range(References(m))}

NeedsSigner(m, a) == \E r \in Range(References(m)) : r.pubkey = a /\ r.isSigner

NeedsWritable(m, a) == \E r \in Range(References(m)) : r.pubkey = a /\ r.isWritable

FirstReference(m, a) ==
    LET refs == References(m)
    IN  CHOOSE i \in DOMAIN refs :
            refs[i].pubkey = a /\ \A j \in 1..(i - 1) : refs[j].pubkey # a

\* The four groups of a compiled table, by the header counts.
SignerWritableAt(c) == 1..(c.header.requiredSignatures - c.header.readonlySigned)
SignerReadonlyAt(c) ==
    (c.header.requiredSignatures - c.header.readonlySigned + 1)..c.header.requiredSignatures
WritableAt(c) ==
    (c.header.requiredSignatures + 1)..(Len(c.accountKeys) - c.header.readonlyUnsigned)
ReadonlyAt(c) ==
    (Len(c.accountKeys) - c.header.readonlyUnsigned + 1)..Len(c.accountKeys)

GroupsOf(c) == <<SignerWritableAt(c), SignerReadonlyAt(c), WritableAt(c), ReadonlyAt(c)>>

----------------------------------------------------------------------------
(* Claims on compile() *)

\* C1: the fee payer is at index 0 of the compiled account table and index 0
\* lies in the signer+writable group, whatever flags the instructions declare
\* for the fee payer's address.
C1_PayerFirstSignerWritable ==
    compiled # None =>
        /\ Len(compiled.accountKeys) >= 1
        /\ compiled.accountKeys[1] = msg.payerKey
        /\ 1 \in SignerWritableAt(compiled)

C1_Witness ==
    /\ compiled # None
    /\ \E i \in DOMAIN msg.instructions :
           \E k \in DOMAIN msg.instructions[i].keys :
               /\ msg.instructions[i].keys[k].pubkey = msg.payerKey
               /\ ~msg.instructions[i].keys[k].isSigner
               /\ ~msg.instructions[i].keys[k].isWritable
    /\ \E i \in DOMAIN msg.instructions :
           msg.instructions[i].programId # msg.payerKey

\* C2: the account table is the four groups signer+writable, signer+readonly,
\* nonsigner+writable, nonsigner+readonly in this order, the header counts
\* being the group boundaries; inside a group the addresses keep the order of
\* their first reference; requiredSignatures + readonlyUnsigned + the number
\* of nonsigner-writable entries is the table length.
C2_StablePartition ==
    compiled # None =>
        LET c == compiled
            n == Len(c.accountKeys)
            h == c.header
        IN  /\ h.readonlySigned <= h.requiredSignatures
            /\ h.requiredSignatures + h.readonlyUnsigned <= n
            /\ \A i \in 1..n :
                   /\ NeedsSigner(msg, c.accountKeys[i]) <=> i <= h.requiredSignatures
                   /\ NeedsWritable(msg, c.accountKeys[i])
                          <=> i \in SignerWritableAt(c) \cup WritableAt(c)
            /\ \A g \in 1..4 : \A i, j \in GroupsOf(c)[g] :
                   i < j => FirstReference(msg, c.accountKeys[i])
                                < FirstReference(msg, c.accountKeys[j])
            /\ h.requiredSignatures + h.readonlyUnsigned
                   + Cardinality({i \in 1..n : /\ ~NeedsSigner(msg, c.accountKeys[i])
                                               /\ NeedsWritable(msg, c.accountKeys[i])})
               = n

\* Two writable non-signers that stand in the order of their first reference,
\* which is not the order of their bytes.
C2_Witness ==
    /\ compiled # None
    /\ \E i, j \in WritableAt(compiled) :
           /\ i < j
           /\ compiled.accountKeys[i] = AddrB
           /\ compiled.accountKeys[j] = AddrA

\* C3: no address appears twice in the compiled account table, and the table
\* holds exactly the fee payer, every program address and every account
\* reference of the instructions.
C3_NoDuplicateExactSet ==
    compiled # None =>
        /\ \A i, j \in DOMAIN compiled.accountKeys :
               compiled.accountKeys[i] = compiled.accountKeys[j] => i = j
        /\ Range(compiled.accountKeys) = Referenced(msg)

C3_Witness ==
    /\ compiled # None
    /\ Len(References(msg)) > Cardinality(Referenced(msg)) + 1
    /\ Cardinality(Referenced(msg)) = 3

\* C4: the signer flag and the writable flag of an address are each the OR of
\* that flag over all its occurrences: the address stands in a signer group
\* iff some occurrence is a signer, in a writable group iff some occurrence
\* is writable, whatever the order of the occurrences.
C4_FlagsAreOr ==
    compiled # None =>
        \A a \in Referenced(msg) :
            \E i \in DOMAIN compiled.accountKeys :
                /\ compiled.accountKeys[i] = a
                /\ (i \in SignerWritableAt(compiled) \cup SignerReadonlyAt(compiled))
                       <=> NeedsSigner(msg, a)
                /\ (i \in SignerWritableAt(compiled) \cup WritableAt(compiled))
                       <=> NeedsWritable(msg, a)

\* AddrA is named readonly and non-signer first and signer and writable
\* afterwards; AddrB is a program id first and a writable account afterwards.
C4_Witness ==
    /\ compiled # None
    /\ msg.payerKey = SystemProgramId
    /\ Len(msg.instructions) = 2
    /\ msg.instructions[1].programId = AddrB
    /\ msg.instructions[1].keys
           = << [pubkey |-> AddrA, isSigner |-> FALSE, isWritable |-> FALSE] >>
    /\ \E l \in LamportChoices :
           msg.instructions[2] = SystemProgramTransfer(AddrA, AddrB, l)

\* C6: compilation returns no CompiledMessage when the recent blockhash does
\* not decode to exactly 32 bytes.
C6_CompileRejectsBlockhash ==
    compiled # None =>
        /\ base58Decode(msg.recentBlockhash).ok
        /\ Len(base58Decode(msg.recentBlockhash).bytes) = 32

GroupSet(c, g) == {c.accountKeys[i] : i \in GroupsOf(c)[g]}

\* C7 as stated: every permutation of the instructions compiles to the
\* identical account table.
C7_PermutationSameTable ==
    permuted # None => permuted.accountKeys = compiled.accountKeys

\* C7 amended: every permutation of the instructions compiles to a table with
\* the fee payer first, the same header and the same addresses in each of the
\* four groups; the order inside a group follows the instructions and may
\* differ.
C7_PermutationSameGroups ==
    permuted # None =>
        /\ permuted.accountKeys[1] = compiled.accountKeys[1]
        /\ permuted.header = compiled.header
        /\ \A g \in 1..4 : GroupSet(permuted, g) = GroupSet(compiled, g)

C7_Witness ==
    /\ permuted # None
    /\ permuted.accountKeys # compiled.accountKeys
    /\ Len(permuted.accountKeys) = 3

\* The 8-byte little-endian form of an amount below 2^24.
AmountBytes(l) ==
    << l % 256, (l \div 256) % 256, (l \div 65536) % 256, 0, 0, 0, 0, 0 >>

\* The message is a single transfer of l lamports from the fee payer to r.
IsPayerTransfer(r, l) ==
    /\ compiled # None
    /\ msg.instructions = << SystemProgramTransfer(msg.payerKey, r, l) >>

\* C8 as stated: a single transfer from the fee payer P to R, R being neither
\* P nor the system program, compiles to the accounts [P, R, system program]
\* with header (2, 0, 1) and 12 data bytes.
C8_TransferScenario ==
    \A r \in Addresses \ {msg.payerKey, SystemProgramId} : \A l \in LamportChoices :
        IsPayerTransfer(r, l) =>
            /\ compiled.accountKeys = << msg.payerKey, r, SystemProgramId >>
            /\ compiled.header = [requiredSignatures |-> 2, readonlySigned |-> 0,
                                  readonlyUnsigned |-> 1]
            /\ compiled.instructions[1].data = << 2, 0, 0, 0 >> \o AmountBytes(l)

\* C8 amended: with P not the system program either, the accounts are
\* [P, R, system program], the header is (1, 0, 1), P being the only signer,
\* and the data is the 4-byte little-endian 2 and the 8-byte amount.
C8_TransferScenarioOneSigner ==
    \A r \in Addresses \ {msg.payerKey, SystemProgramId} : \A l \in LamportChoices :
        (IsPayerTransfer(r, l) /\ msg.payerKey # SystemProgramId) =>
            /\ compiled.accountKeys = << msg.payerKey, r, SystemProgramId >>
            /\ compiled.header = [requiredSignatures |-> 1, readonlySigned |-> 0,
                                  readonlyUnsigned |-> 1]
            /\ Len(compiled.instructions[1].data) = 12
            /\ compiled.instructions[1].data = << 2, 0, 0, 0 >> \o AmountBytes(l)

C8_Witness ==
    /\ msg.payerKey = AddrA
    /\ \E l \in LamportChoices : l > 255 /\ IsPayerTransfer(AddrB, l)

\* C9: the compiled instructions follow the input instructions one to one: the
\* program index and every account index are defined, lie inside the table
\* and name the instruction's program and its account references in their
\* order; the data is unchanged.
C9_InstructionsRewritten ==
    compiled # None =>
        LET c == compiled
            n == Len(c.accountKeys)
        IN  /\ Len(c.instructions) = Len(msg.instructions)
            /\ \A i \in DOMAIN msg.instructions :
                   LET ix == msg.instructions[i]
                       ci == c.instructions[i]
                   IN  /\ ci.programIdIndex \in 0..(n - 1)
                       /\ c.accountKeys[ci.programIdIndex + 1] = ix.programId
                       /\ Len(ci.accounts) = Len(ix.keys)
                       /\ \A j \in DOMAIN ix.keys :
                              /\ ci.accounts[j] \in 0..(n - 1)
                              /\ c.accountKeys[ci.accounts[j] + 1] = ix.keys[j].pubkey
                       /\ ci.data = ix.data

\* The second of two instructions names the accounts 1 and 0 in this order.
C9_Witness ==
    /\ compiled # None
    /\ Len(compiled.instructions) = 2
    /\ compiled.instructions[2].accounts = << 1, 0 >>
    /\ compiled.instructions[1].data # compiled.instructions[2].data

----------------------------------------------------------------------------
(* Claims on the transaction builders *)

\* C5: serialize() called while no signature is stored throws "transaction not
\* signed" and returns no bytes, for the legacy and the versioned transaction;
\* no successful serialize() emits a signature count of zero.
C5_UnsignedSerializeThrows ==
    ret.op = "serialize" =>
        /\ Len(tx.signatures) = 0 =>
               /\ ~ret.ok
               /\ ret.error = "transaction not signed"
               /\ "bytes" \notin DOMAIN ret
        /\ ret.ok => ret.bytes[1] # 0

\* serialize() throws on a legacy transaction that has instructions and a
\* well-formed blockhash but no signature.
C5_Witness ==
    /\ ret.op = "serialize"
    /\ ~ret.ok
    /\ tx.kind = "legacy"
    /\ Len(tx.instructions) >= 1
    /\ tx.recentBlockhash = GoodBlockhash
    /\ Len(tx.signatures) = 0

\* C10: a sign() call in flight has one request per keypair, in the order of
\* the keypairs, from its first step on; sign() returns only when every
\* request has completed, and entry k of the stored signature list is then the
\* signature of the k-th keypair over the call's message, in whatever order
\* the requests completed.
C10_SignFanOutFanIn ==
    /\ \A c \in DOMAIN calls :
           /\ Len(calls[c].requests) = Len(calls[c].signers)
           /\ \A k \in DOMAIN calls[c].signers :
                  /\ calls[c].requests[k].keypair = calls[c].signers[k]
                  /\ calls[c].requests[k].state = "pending"
                         <=> k \notin Range(calls[c].settled)
    /\ (ret.op = "sign" /\ ret.ok) =>
           /\ Range(ret.settled) = DOMAIN ret.signers
           /\ Len(tx.signatures) = Len(ret.signers)
           /\ \A k \in DOMAIN ret.signers :
                  tx.signatures[k]
                      = [publicKey |-> ret.signers[k].publicKey,
                         signature |-> KeypairSign(ret.signers[k], ret.message)]

\* sign() has returned after its second request completed before its first.
C10_Witness ==
    /\ ret.op = "sign"
    /\ ret.ok
    /\ ret.settled = << 2, 1 >>
    /\ ret.signers[1] # ret.signers[2]

\* The bytes a serialized transaction carries after its signature count and
\* its signatures.
EmittedMessage(bytes, signatures) ==
    SubSeq(bytes,
           Len(shortvecEncode(Len(signatures)))
               + Len(Flatten([k \in DOMAIN signatures |-> signatures[k].signature])) + 1,
           Len(bytes))

\* C11: what sign() has signed is the legacy message compiled from the fee
\* payer, blockhash and instructions the transaction had when sign() was
\* called, or the version byte followed by the message for a versioned
\* transaction, and every keypair signs these bytes; a later successful
\* serialize() emits these very bytes after the signatures when no field has
\* changed since sign() was called, and other bytes when an instruction was
\* added since.
C11_SignedBytesAreSerialized ==
    /\ signed # None =>
           signed.message
               = IF tx.kind = "legacy"
                 THEN serializeMessage(
                          compile([payerKey |-> signed.inputs.feePayer,
                                   recentBlockhash |-> signed.inputs.recentBlockhash,
                                   instructions |-> signed.inputs.instructions])).bytes
                 ELSE << V0_FLAG >> \o serializeMessage(tx.message).bytes
    /\ (ret.op = "sign" /\ ret.ok) =>
           \A k \in DOMAIN tx.signatures :
               tx.signatures[k].signature = KeypairSign(signed.signers[k], signed.message)
    /\ (ret.op = "serialize" /\ ret.ok) =>
           /\ signed # None
           /\ MessageInputs(tx) = signed.inputs
                  => EmittedMessage(ret.bytes, tx.signatures) = signed.message
           /\ tx.instructions # signed.inputs.instructions
                  => EmittedMessage(ret.bytes, tx.signatures) # signed.message

\* serialize() succeeds on a legacy transaction that got an instruction after
\* its sign() was called.
C11_Witness ==
    /\ ret.op = "serialize"
    /\ ret.ok
    /\ tx.kind = "legacy"
    /\ Len(tx.instructions) = Len(signed.inputs.instructions) + 1
    /\ tx.recentBlockhash = signed.inputs.recentBlockhash

----------------------------------------------------------------------------
(* JavaScript values at the seam to the engine and to the remote endpoint *)

Null == [null |-> TRUE]

Str(text) == [string |-> text]

Num(n) == [number |-> n]

Bool(b) == [boolean |-> b]

\* An object is the function from its own property names to their values.
Obj(fields) == [object |-> fields]

Arr(items) == [array |-> items]

EmptyObject == Obj([name \in {} |-> Undefined])

\* if (v): undefined, null, "", 0 and false are falsy, every object is truthy.
Truthy(v) ==
    v # Undefined /\ v # Null /\ v # Str("") /\ v # Num(0) /\ v # Bool(FALSE)

\* typeof v
TypeOf(v) ==
    CASE v = Undefined -> "undefined"
      [] "string" \in DOMAIN v -> "string"
      [] "number" \in DOMAIN v -> "number"
      [] "boolean" \in DOMAIN v -> "boolean"
      [] OTHER -> "object"

\* name in v, for an object or an array v
Has(v, name) == "object" \in DOMAIN v /\ name \in DOMAIN v.object

\* v.name, for a v that is neither null nor undefined
Get(v, name) == IF Has(v, name) THEN v.object[name] ELSE Undefined

----------------------------------------------------------------------------
(* LiteSvm: the wrapper around the engine bindings (mod.ts) *)

\* Mutant: the value is looked at before the error.
unwrapValueValueFirst(result) ==
    IF result.value = Undefined
    THEN [ok |-> FALSE, error |-> "LiteSVM binding returned no value",
          reads |-> << "value" >>]
    ELSE IF Truthy(result.error)
    THEN [ok |-> FALSE, error |-> result.error.string,
          reads |-> << "value", "error", "error" >>]
    ELSE [ok |-> TRUE, value |-> result.value,
          reads |-> << "value", "error", "value" >>]

\* Each unwrap yields the outcome and the envelope fields it read, in order.
unwrapVoid(result) ==
    IF Truthy(result.error)
    THEN [ok |-> FALSE, error |-> result.error.string, reads |-> << "error", "error" >>]
    ELSE [ok |-> TRUE, value |-> Undefined, reads |-> << "error" >>]

unwrapValue(result) ==
    IF Truthy(result.error)
    THEN [ok |-> FALSE, error |-> result.error.string, reads |-> << "error", "error" >>]
    ELSE IF result.value = Undefined
    THEN [ok |-> FALSE, error |-> "LiteSVM binding returned no value",
          reads |-> << "error", "value" >>]
    ELSE [ok |-> TRUE, value |-> result.value, reads |-> << "error", "value", "value" >>]

unwrapOptionalValue(result) ==
    IF Truthy(result.error)
    THEN [ok |-> FALSE, error |-> result.error.string, reads |-> << "error", "error" >>]
    ELSE [ok |-> TRUE,
          value |-> IF result.value \in {Undefined, Null} THEN Null ELSE result.value,
          reads |-> << "error", "value" >>]

----------------------------------------------------------------------------
(* The engine behind the bindings: an account store that executes transfers. *)
(* An account is the record of its lamports, an absent account is Null.      *)

MaxLamports == 3    \* lamports in the account store

EngineAddresses == {AddrA, AddrB}

EngineAmounts == {1, 2}

Balance(accts, pk) == IF accts[pk] = Null THEN 0 ELSE accts[pk].lamports

Total(accts) == Balance(accts, AddrA) + Balance(accts, AddrB)

\* The transfer a serialized transaction asks for, read off its bytes.
EngineParse(bytes) ==
    LET body == SubSeq(bytes, 2 + 64 * bytes[1], Len(bytes))
        versioned == body[1] >= V0_FLAG
        m == IF versioned THEN Tail(body) ELSE body
    IN  [versioned |-> versioned,
         from |-> SubSeq(m, 5, 36),
         to |-> SubSeq(m, 37, 68),
         lamports |-> m[Len(m) - 7] + 256 * m[Len(m) - 6]]

\* Executing the transfer on a view of the store: the result value and the
\* view afterwards.
EngineExecute(accts, bytes, versioned) ==
    LET t == EngineParse(bytes)
    IN  IF t.versioned # versioned
        THEN [failed |-> TRUE, error |-> "failed to deserialize transaction",
              accounts |-> accts]
        ELSE IF Balance(accts, t.from) < t.lamports
        THEN [failed |-> FALSE, value |-> [status |-> "err", logs |-> << >>],
              accounts |-> accts]
        ELSE [failed |-> FALSE,
              value |-> [status |-> "ok", logs |-> << "transfer" >>],
              accounts |->
                  [accts EXCEPT
                      ![t.from] = IF Balance(accts, t.from) = t.lamports THEN Null
                                  ELSE [lamports |-> Balance(accts, t.from) - t.lamports],
                      ![t.to] = [lamports |-> Balance(accts, t.to) + t.lamports]]]

\* The envelopes a binding may answer with when the engine has computed r:
\* the value alone, the value with a null or an empty error, or the engine's
\* error; a failing engine call answers with its error.
Envelopes(r) ==
    IF r.failed
    THEN {[value |-> v, error |-> Str(r.error)] : v \in {Undefined, Null}}
    ELSE {[value |-> r.value, error |-> e] : e \in {Undefined, Null, Str("")}}

\* Any binding may also fail for a reason of the engine's own, with or without
\* a value in the envelope.
FailureEnvelopes(v) ==
    {[value |-> x, error |-> Str("engine failure")] : x \in {Undefined, v}}

\* send_legacy_transaction / send_versioned_transaction commit the view,
\* simulate_legacy_transaction / simulate_versioned_transaction drop it.
Bindings ==
    { "send_legacy_transaction", "send_versioned_transaction",
      "simulate_legacy_transaction", "simulate_versioned_transaction" }

BindingVersioned(binding) ==
    binding \in {"send_versioned_transaction", "simulate_versioned_transaction"}

BindingCommits(binding) ==
    binding \in {"send_legacy_transaction", "send_versioned_transaction"}

\* What a transaction binding may do on the bytes: the envelope it answers
\* with and the store it leaves.
TransactionBinding(binding, bytes) ==
    LET r == EngineExecute(accounts, bytes, BindingVersioned(binding))
    IN  {[envelope |-> e,
          accounts |-> IF BindingCommits(binding) THEN r.accounts ELSE accounts] :
            e \in Envelopes(r)}
        \cup {[envelope |-> e, accounts |-> accounts] :
                e \in FailureEnvelopes(IF r.failed THEN Undefined ELSE r.value)}

\* The transactions handed to the engine: a transfer from AddrA to AddrB,
\* legacy or versioned, signed by AddrA's keypair or not signed at all.
EngineKeypair == [publicKey |-> AddrA, secret |-> 11]

EngineTx(kind, lamports, isSigned) ==
    LET input == [payerKey |-> AddrA, recentBlockhash |-> GoodBlockhash,
                  instructions |-> << SystemProgramTransfer(AddrA, AddrB, lamports) >>]
        t == [kind |-> kind, feePayer |-> AddrA, recentBlockhash |-> GoodBlockhash,
              instructions |-> input.instructions,
              message |-> IF kind = "v0" THEN compile(input) ELSE None,
              signatures |-> << >>]
    IN  IF ~isSigned THEN t
        ELSE [t EXCEPT !.signatures =
                 << [publicKey |-> AddrA,
                     signature |-> KeypairSign(EngineKeypair, MessageBytes(t).bytes)] >>]

EngineTxs ==
    {EngineTx(kind, l, isSigned) :
        kind \in {"legacy", "v0"}, l \in EngineAmounts, isSigned \in BOOLEAN}

\* new LiteSvm(); the caller holds one transaction.
InitEngine ==
    /\ tx \in EngineTxs
    /\ accounts = [x \in EngineAddresses |-> Null]
    /\ ret = NoCall
    /\ msg = None
    /\ compiled = None
    /\ permuted = None
    /\ calls = Idle
    /\ signed = None
    /\ arg = None
    /\ rpc = None

\* LiteSvm.airdrop(pubkey, lamports)
Airdrop(pubkey, lamports) ==
    /\ Total(accounts) + lamports <= MaxLamports
    /\ \/ /\ accounts' = [accounts EXCEPT
                             ![pubkey] = [lamports |-> Balance(accounts, pubkey) + lamports]]
          /\ \E e \in {Undefined, Null, Str("")} :
                 ret' = [op |-> "airdrop", envelope |-> [value |-> Undefined, error |-> e]]
                        @@ unwrapVoid([value |-> Undefined, error |-> e])
       \/ /\ UNCHANGED accounts
          /\ \E e \in FailureEnvelopes(Undefined) :
                 ret' = [op |-> "airdrop", envelope |-> e] @@ unwrapVoid(e)
    /\ UNCHANGED <<tx, msg, compiled, permuted, calls, signed, arg, rpc>>

\* LiteSvm.setAccount(pubkey, account)
SetAccount(pubkey, account) ==
    /\ Total(accounts) - Balance(accounts, pubkey) + account.lamports <= MaxLamports
    /\ accounts[pubkey] # account
    /\ \/ /\ accounts' = [accounts EXCEPT ![pubkey] = account]
          /\ ret' = [op |-> "setAccount", envelope |-> [value |-> Undefined, error |-> Null]]
                    @@ unwrapVoid([value |-> Undefined, error |-> Null])
       \/ /\ UNCHANGED accounts
          /\ \E e \in FailureEnvelopes(Undefined) :
                 ret' = [op |-> "setAccount", envelope |-> e] @@ unwrapVoid(e)
    /\ UNCHANGED <<tx, msg, compiled, permuted, calls, signed, arg, rpc>>

\* The envelopes of get_account: the account, nothing for an absent one, or
\* the engine's error.
GetAccountEnvelopes(pubkey) ==
    {[value |-> v, error |-> e] :
        v \in (IF accounts[pubkey] = Null THEN {Undefined, Null} ELSE {accounts[pubkey]}),
        e \in {Undefined, Null, Str("")}}
    \cup FailureEnvelopes(accounts[pubkey])

\* LiteSvm.getAccount(pubkey)
GetAccount(pubkey) ==
    /\ \E e \in GetAccountEnvelopes(pubkey) :
           ret' = [op |-> "getAccount", pubkey |-> pubkey, envelope |-> e]
                  @@ unwrapOptionalValue(e)
    /\ UNCHANGED <<accounts, tx, msg, compiled, permuted, calls, signed, arg, rpc>>

\* LiteSvm.latestBlockhashString()
LatestBlockhashString ==
    /\ \E e \in {[value |-> Str(GoodBlockhash), error |-> Null],
                 [value |-> Undefined, error |-> Undefined]}
                \cup FailureEnvelopes(Str(GoodBlockhash)) :
           ret' = [op |-> "latestBlockhashString", envelope |-> e] @@ unwrapValue(e)
    /\ UNCHANGED <<accounts, tx, msg, compiled, permuted, calls, signed, arg, rpc>>

\* LiteSvm.sendLegacyTransaction, sendVersionedTransaction,
\* simulateLegacyTransaction and simulateVersionedTransaction on bytes
LiteSvmTransaction(op, binding, bytes) ==
    /\ \E o \in TransactionBinding(binding, bytes) :
           /\ accounts' = o.accounts
           /\ ret' = [op |-> op, binding |-> binding, envelope |-> o.envelope]
                     @@ unwrapValue(o.envelope)
    /\ UNCHANGED <<tx, msg, compiled, permuted, calls, signed, arg, rpc>>

SendLegacyTransaction ==
    /\ SerializeTx(tx).ok
    /\ LiteSvmTransaction("sendLegacyTransaction", "send_legacy_transaction",
                          SerializeTx(tx).bytes)

SendVersionedTransaction ==
    /\ SerializeTx(tx).ok
    /\ LiteSvmTransaction("sendVersionedTransaction", "send_versioned_transaction",
                          SerializeTx(tx).bytes)

SimulateLegacyTransaction ==
    /\ SerializeTx(tx).ok
    /\ LiteSvmTransaction("simulateLegacyTransaction", "simulate_legacy_transaction",
                          SerializeTx(tx).bytes)

SimulateVersionedTransaction ==
    /\ SerializeTx(tx).ok
    /\ LiteSvmTransaction("simulateVersionedTransaction", "simulate_versioned_transaction",
                          SerializeTx(tx).bytes)

----------------------------------------------------------------------------
(* LocalTransport: the client's transport onto a LiteSvm *)

isVersioned(t) == t.kind = "v0"

LocalSendBinding(t) ==
    IF isVersioned(t) THEN "send_versioned_transaction" ELSE "send_legacy_transaction"

\* Mutant: simulateTransaction dispatches to the send bindings.
LocalSimulateBindingSends(t) ==
    IF isVersioned(t) THEN "send_versioned_transaction" ELSE "send_legacy_transaction"

LocalSimulateBinding(t) ==
    IF isVersioned(t) THEN "simulate_versioned_transaction"
    ELSE "simulate_legacy_transaction"

\* A transport call on the transaction: serialize() throws, or the binding is
\* invoked on the bytes.
LocalTransaction(op, binding) ==
    LET bytes == SerializeTx(tx)
    IN  IF ~bytes.ok
        THEN /\ ret' = [op |-> op] @@ bytes
             /\ UNCHANGED <<accounts, tx, msg, compiled, permuted, calls, signed, arg, rpc>>
        ELSE LiteSvmTransaction(op, binding, bytes.bytes)

\* LocalTransport.sendTransaction(tx)
LocalSendTransaction ==
    /\ tx # None
    /\ LocalTransaction("LocalTransport.sendTransaction", LocalSendBinding(tx))

\* LocalTransport.simulateTransaction(tx)
LocalSimulateTransaction ==
    /\ tx # None
    /\ LocalTransaction("LocalTransport.simulateTransaction", LocalSimulateBinding(tx))

\* LocalTransport.getAccount(pubkey)
LocalGetAccount(pubkey) ==
    /\ \E e \in GetAccountEnvelopes(pubkey) :
           ret' = [op |-> "LocalTransport.getAccount", pubkey |-> pubkey, envelope |-> e]
                  @@ unwrapOptionalValue(e)
    /\ UNCHANGED <<accounts, tx, msg, compiled, permuted, calls, signed, arg, rpc>>

NextEngine ==
    \/ \E pubkey \in EngineAddresses, lamports \in EngineAmounts : Airdrop(pubkey, lamports)
    \/ \E pubkey \in EngineAddresses : SetAccount(pubkey, [lamports |-> MaxLamports])
    \/ \E pubkey \in EngineAddresses : GetAccount(pubkey)
    \/ LatestBlockhashString
    \/ SendLegacyTransaction
    \/ SendVersionedTransaction
    \/ SimulateLegacyTransaction
    \/ SimulateVersionedTransaction
    \/ LocalSendTransaction
    \/ LocalSimulateTransaction
    \/ \E pubkey \in EngineAddresses : LocalGetAccount(pubkey)

SpecEngine == InitEngine /\ [][NextEngine]_vars

----------------------------------------------------------------------------
(* Claims on the engine wrapper and the local transport *)

SimulateOps ==
    { "simulateLegacyTransaction", "simulateVersionedTransaction",
      "LocalTransport.simulateTransaction" }

GetAccountOps == { "getAccount", "LocalTransport.getAccount" }

\* C12: a simulate call, through LiteSvm or through the local transport,
\* leaves every account of the store as it was, the local transport invoking
\* only a simulate binding for it; and a getAccount that returns answers with
\* the account as the store holds it, or with null for an absent account.
C12_SimulationKeepsAccounts ==
    /\ [][ret'.op \in SimulateOps =>
             /\ accounts' = accounts
             /\ "binding" \in DOMAIN ret' =>
                    ret'.binding \in { "simulate_legacy_transaction",
                                       "simulate_versioned_transaction" }]_vars
    /\ [](ret.op \in GetAccountOps /\ ret.ok => ret.value = accounts[ret.pubkey])

\* The local transport has simulated a versioned transfer with success while
\* the recipient's account does not exist.
C12_Witness ==
    /\ ret.op = "LocalTransport.simulateTransaction"
    /\ ret.ok
    /\ ret.value.status = "ok"
    /\ tx.kind = "v0"
    /\ accounts[AddrB] = Null
    /\ accounts[AddrA] # Null

----------------------------------------------------------------------------
(* The codec functions on their own *)

MaxBytes == 4       \* length of the byte sequences encoded
MaxLength == 16384  \* lengths encoded, besides the wide ones

ByteChoices == {0, 1, 57, 58, 255}

ByteSequences == UNION {[1..n -> ByteChoices] : n \in 0..MaxBytes}

\* Numbers at and beyond the 32-bit boundaries: 2^31 - 1, 2^31, 2^32 - 1,
\* 2^32 and 2^32 + 300.
WideLengths ==
    { [hi |-> 32767, lo |-> 65535], [hi |-> 32768, lo |-> 0],
      [hi |-> 65535, lo |-> 65535], [hi |-> 65536, lo |-> 0],
      [hi |-> 65536, lo |-> 300] }

Lengths == {[hi |-> 0, lo |-> n] : n \in 0..MaxLength} \cup WideLengths

\* Byte forms handed to new PublicKey: of 0, 31, 32 and 33 bytes.
PublicKeyBytes ==
    { Zeros(0), Zeros(31), Zeros(32), Zeros(33),
      AddrA, AddrB, Tail(AddrB), AddrB \o <<1>>, <<255>> \o Tail(AddrB) }

\* Texts handed to new PublicKey: the base-58 form of each of these, the
\* empty text, and texts with a character outside the alphabet.
PublicKeyTexts ==
    { base58Encode(bytes) : bytes \in PublicKeyBytes }
    \cup { BadCharBlockhash, Front(base58Encode(AddrB)) \o <<"0">>,
           <<"l">> \o base58Encode(AddrB) }

InitCodec ==
    /\ arg \in [bytes : ByteSequences] \cup [length : Lengths]
               \cup [publicKeyBytes : PublicKeyBytes] \cup [publicKeyText : PublicKeyTexts]
    /\ ret = NoCall
    /\ msg = None
    /\ compiled = None
    /\ permuted = None
    /\ tx = None
    /\ calls = Idle
    /\ signed = None
    /\ accounts = None
    /\ rpc = None

\* base58Encode(arg.bytes)
Base58Encode ==
    /\ "bytes" \in DOMAIN arg
    /\ ret = NoCall
    /\ ret' = [op |-> "base58Encode", text |-> base58Encode(arg.bytes)]
    /\ UNCHANGED <<arg, msg, compiled, permuted, tx, calls, signed, accounts, rpc>>

\* base58Decode of the text encoded before
Base58Decode ==
    /\ ret.op = "base58Encode"
    /\ ret' = [op |-> "base58Decode", text |-> ret.text] @@ base58Decode(ret.text)
    /\ UNCHANGED <<arg, msg, compiled, permuted, tx, calls, signed, accounts, rpc>>

\* shortvecEncode(arg.length)
ShortvecEncode ==
    /\ "length" \in DOMAIN arg
    /\ ret = NoCall
    /\ ret' = [op |-> "shortvecEncode"] @@ shortvecEncodeNumber(arg.length)
    /\ UNCHANGED <<arg, msg, compiled, permuted, tx, calls, signed, accounts, rpc>>

\* new PublicKey(input), on a byte form or on a text
NewPublicKey ==
    /\ ret = NoCall
    /\ \/ /\ "publicKeyBytes" \in DOMAIN arg
          /\ ret' = [op |-> "new PublicKey"] @@ PublicKeyFromBytes(arg.publicKeyBytes)
       \/ /\ "publicKeyText" \in DOMAIN arg
          /\ ret' = [op |-> "new PublicKey"] @@ PublicKeyFromText(arg.publicKeyText)
    /\ UNCHANGED <<arg, msg, compiled, permuted, tx, calls, signed, accounts, rpc>>

\* toBytes() and toBase58() of the PublicKey constructed before
PublicKeyToBytes ==
    /\ ret.op = "new PublicKey"
    /\ ret.ok
    /\ ret' = [op |-> "toBytes", ok |-> TRUE, key |-> ret.key, bytes |-> toBytes(ret.key)]
    /\ UNCHANGED <<arg, msg, compiled, permuted, tx, calls, signed, accounts, rpc>>

PublicKeyToBase58 ==
    /\ ret.op = "new PublicKey"
    /\ ret.ok
    /\ ret' = [op |-> "toBase58", ok |-> TRUE, key |-> ret.key, text |-> toBase58(ret.key)]
    /\ UNCHANGED <<arg, msg, compiled, permuted, tx, calls, signed, accounts, rpc>>

NextCodec ==
    \/ Base58Encode
    \/ Base58Decode
    \/ ShortvecEncode
    \/ NewPublicKey
    \/ PublicKeyToBytes
    \/ PublicKeyToBase58

SpecCodec == InitCodec /\ [][NextCodec]_vars

----------------------------------------------------------------------------
(* Claims on the codec functions *)

\* C13: decoding the base-58 text of a byte sequence gives the byte sequence
\* back, the empty one and the all-zero ones included, and the text starts
\* with exactly as many '1' characters as the sequence has leading zero bytes.
C13_Base58RoundTrip ==
    ret.op = "base58Decode" =>
        /\ ret.ok
        /\ ret.bytes = arg.bytes
        /\ LeadingCount(ret.text, "1") = LeadingCount(arg.bytes, 0)

\* Two zero bytes before a non-zero byte went through encode and decode.
C13_Witness ==
    /\ ret.op = "base58Decode"
    /\ arg.bytes = << 0, 0, 255 >>
    /\ ret.text = << "1", "1", "5", "Q" >>

\* The number a compact length prefix stands for: the sum of
\* (byte & 0x7f) * 128^i over its bytes.
RECURSIVE ShortvecValue(_)
ShortvecValue(bytes) ==
    IF bytes = << >> THEN 0
    ELSE (bytes[1] % 128) + 128 * ShortvecValue(Tail(bytes))

\* C14: shortvecEncode(n) returns for every number n >= 0 the 7-bit groups of
\* n, least significant first, the high bit set on every byte but the last,
\* no superfluous last group, the groups summing up to n; 0, 127, 128, 16383
\* and 16384 are encoded as the spec lists them.
C14_ShortvecEncodesEveryNumber ==
    ret.op = "shortvecEncode" =>
        /\ ret.ok
        /\ Len(ret.bytes) >= 1
        /\ \A i \in 1..(Len(ret.bytes) - 1) : ret.bytes[i] \in 128..255
        /\ ret.bytes[Len(ret.bytes)] \in 0..127
        /\ Len(ret.bytes) > 1 => ret.bytes[Len(ret.bytes)] # 0
        /\ ShortvecValue(ret.bytes) \div 65536 = arg.length.hi
        /\ ShortvecValue(ret.bytes) % 65536 = arg.length.lo
        /\ arg.length = [hi |-> 0, lo |-> 0] => ret.bytes = << 0 >>
        /\ arg.length = [hi |-> 0, lo |-> 127] => ret.bytes = << 127 >>
        /\ arg.length = [hi |-> 0, lo |-> 128] => ret.bytes = << 128, 1 >>
        /\ arg.length = [hi |-> 0, lo |-> 16383] => ret.bytes = << 255, 127 >>
        /\ arg.length = [hi |-> 0, lo |-> 16384] => ret.bytes = << 128, 128, 1 >>

----------------------------------------------------------------------------
(* Claims on the wire layout *)

\* One compiled instruction on the wire, every list here being shorter than
\* 128 entries so that its compact length is the one byte of its length.
InstructionOnWire(ix) ==
    << ix.programIdIndex % 256, Len(ix.accounts) >>
    \o [j \in DOMAIN ix.accounts |-> ix.accounts[j] % 256]
    \o << Len(ix.data) >> \o ix.data

\* C15: the bytes of serializeMessage(compiled) are, in this order and with
\* nothing else: the three header counts as one byte each, the length of the
\* account table, 32 bytes per account in table order, the 32 bytes the
\* blockhash decodes to, the number of instructions, and per instruction its
\* program index, the length of its account indices, the indices, the length
\* of its data and the data.
C15_MessageLayout ==
    (ret.op = "serializeMessage" /\ ret.ok) =>
        LET c == compiled
            n == Len(c.accountKeys)
            b == ret.bytes
        IN  /\ SubSeq(b, 1, 3) = << c.header.requiredSignatures % 256,
                                    c.header.readonlySigned % 256,
                                    c.header.readonlyUnsigned % 256 >>
            /\ b[4] = n
            /\ \A i \in 1..n :
                   SubSeq(b, 5 + 32 * (i - 1), 4 + 32 * i) = c.accountKeys[i]
            /\ SubSeq(b, 5 + 32 * n, 36 + 32 * n) = AddrB
            /\ c.recentBlockhash = GoodBlockhash
            /\ b[37 + 32 * n] = Len(c.instructions)
            /\ SubSeq(b, 38 + 32 * n, Len(b))
                   = Flatten([i \in DOMAIN c.instructions |->
                                 InstructionOnWire(c.instructions[i])])

\* A message of two different instructions over three accounts is serialized.
C15_Witness ==
    /\ ret.op = "serializeMessage"
    /\ ret.ok
    /\ Len(compiled.accountKeys) = 3
    /\ Len(compiled.instructions) = 2
    /\ Len(compiled.instructions[1].accounts) # Len(compiled.instructions[2].accounts)

\* C16: MessageV0.serialize() is the byte 0x80 followed by exactly the bytes
\* serializeMessage gives for the same compiled message, and fails when
\* serializeMessage fails.
C16_VersionedIsPrefixedLegacy ==
    ret.op = "serialize" =>
        /\ ret.ok <=> serializeMessage(compiled).ok
        /\ ret.ok =>
               /\ ret.bytes[1] = 128
               /\ Len(ret.bytes) = Len(serializeMessage(compiled).bytes) + 1
               /\ Tail(ret.bytes) = serializeMessage(compiled).bytes

\* A versioned message with an instruction is serialized.
C16_Witness ==
    /\ ret.op = "serialize"
    /\ ret.ok
    /\ Len(compiled.instructions) >= 1
    /\ Len(ret.bytes) > 100

\* C17: a successful serialize() emits the number of stored signatures as a
\* compact length, the stored signatures in their order and then the message
\* bytes, legacy or version-prefixed; the stored signatures are always one per
\* keypair of the sign() call that completed last, in that call's order, a
\* later sign() replacing what an earlier one stored.
C17_TransactionLayout ==
    /\ signed = None => tx.signatures = << >>
    /\ signed # None =>
           /\ Len(tx.signatures) = Len(signed.signers)
           /\ \A k \in DOMAIN signed.signers :
                  tx.signatures[k]
                      = [publicKey |-> signed.signers[k].publicKey,
                         signature |-> KeypairSign(signed.signers[k], signed.message)]
    /\ (ret.op = "serialize" /\ ret.ok) =>
           LET n == Len(tx.signatures)
               message ==
                   IF tx.kind = "legacy"
                   THEN serializeMessage(
                            compile([payerKey |-> tx.feePayer,
                                     recentBlockhash |-> tx.recentBlockhash,
                                     instructions |-> tx.instructions])).bytes
                   ELSE << 128 >> \o serializeMessage(tx.message).bytes
           IN  /\ ret.bytes[1] = n
               /\ \A k \in 1..n :
                      SubSeq(ret.bytes, 2 + 64 * (k - 1), 1 + 64 * k)
                          = tx.signatures[k].signature
               /\ SubSeq(ret.bytes, 2 + 64 * n, Len(ret.bytes)) = message

\* serialize() succeeds on the two signatures of a sign() that was handed the
\* keypair of AddrB before the fee payer's, and that signed a blockhash set
\* after the transaction was made.
C17_Witness ==
    /\ ret.op = "serialize"
    /\ ret.ok
    /\ signed # None
    /\ signed.inputs.recentBlockhash = LaterBlockhash
    /\ Len(tx.signatures) = 2
    /\ tx.signatures[1].publicKey = AddrB
    /\ tx.signatures[2].publicKey = AddrA

\* C18: for every LiteSvm wrapper operation, an envelope that carries an error
\* string, the empty one included, makes the operation throw that string
\* without reading the value field.
C18_ErrorFieldThrows ==
    ("envelope" \in DOMAIN ret /\ ret.envelope.error \notin {Undefined, Null}) =>
        /\ ~ret.ok
        /\ ret.error = ret.envelope.error.string
        /\ "value" \notin Range(ret.reads)

\* C18: for every LiteSvm wrapper operation, an envelope that carries a
\* non-empty error string makes the operation throw that string without
\* reading the value field, so that a returned value always comes from an
\* envelope whose error is absent, null or empty; with such an error the only
\* throw is the one for a missing value.
C18_NonEmptyErrorThrows ==
    "envelope" \in DOMAIN ret =>
        /\ Truthy(ret.envelope.error) =>
               /\ ~ret.ok
               /\ ret.error = ret.envelope.error.string
               /\ "value" \notin Range(ret.reads)
        /\ ret.ok => ret.envelope.error \in {Undefined, Null, Str("")}
        /\ (~Truthy(ret.envelope.error) /\ ~ret.ok) =>
               /\ ret.error = "LiteSVM binding returned no value"
               /\ ret.envelope.value = Undefined

\* A send answers with an envelope that holds a result and the engine's error.
C18_Witness ==
    /\ ret.op = "sendLegacyTransaction"
    /\ ret.envelope.value \notin {Undefined, Null}
    /\ ret.envelope.error = Str("engine failure")
    /\ ~ret.ok
    /\ ret.error = "engine failure"

----------------------------------------------------------------------------
(* base-64, as btoa and atob compute it on the characters of code 0..255 *)

Base64Alphabet ==
    << "A", "B", "C", "D", "E", "F", "G", "H", "I", "J", "K", "L", "M",
       "N", "O", "P", "Q", "R", "S", "T", "U", "V", "W", "X", "Y", "Z",
       "a", "b", "c", "d", "e", "f", "g", "h", "i", "j", "k", "l", "m",
       "n", "o", "p", "q", "r", "s", "t", "u", "v", "w", "x", "y", "z",
       "0", "1", "2", "3", "4", "5", "6", "7", "8", "9", "+", "/" >>

\* Mutant: a last group of one or two bytes is left out of the text.
btoaDropsPartialGroup(bytes) ==
    LET n == Len(bytes)
        char(j) ==
            LET g == (j - 1) \div 4
                k == (j - 1) % 4
                v == bytes[3 * g + 1] * 65536 + bytes[3 * g + 2] * 256 + bytes[3 * g + 3]
                sextet == CASE k = 0 -> v \div 262144
                            [] k = 1 -> (v \div 4096) % 64
                            [] k = 2 -> (v \div 64) % 64
                            [] OTHER -> v % 64
            IN  Base64Alphabet[sextet + 1]
    IN  [j \in 1..(4 * (n \div 3)) |-> char(j)]

\* btoa of the binary string whose character codes are the bytes
btoa(bytes) ==
    LET n == Len(bytes)
        byte(i) == IF i <= n THEN bytes[i] ELSE 0
        char(j) ==
            LET g == (j - 1) \div 4
                k == (j - 1) % 4
                v == byte(3 * g + 1) * 65536 + byte(3 * g + 2) * 256 + byte(3 * g + 3)
                sextet == CASE k = 0 -> v \div 262144
                            [] k = 1 -> (v \div 4096) % 64
                            [] k = 2 -> (v \div 64) % 64
                            [] OTHER -> v % 64
            IN  IF (k = 2 /\ 3 * g + 2 > n) \/ (k = 3 /\ 3 * g + 3 > n)
                THEN "="
                ELSE Base64Alphabet[sextet + 1]
    IN  [j \in 1..(4 * ((n + 2) \div 3)) |-> char(j)]

\* atob: the padding is optional, a character outside the alphabet or a
\* length of 4k+1 throws, the bits left over are dropped.
atob(text) ==
    LET len == Len(text)
        pad == IF len % 4 = 0 /\ len >= 2 /\ text[len] = "="
               THEN (IF text[len - 1] = "=" THEN 2 ELSE 1)
               ELSE 0
        data == SubSeq(text, 1, len - pad)
        m == Len(data)
        index(c) == (CHOOSE i \in 1..64 : Base64Alphabet[i] = c) - 1
        quad(g, k) == IF 4 * g + k <= m THEN index(data[4 * g + k]) ELSE 0
        byte(i) ==
            LET g == (i - 1) \div 3
                k == (i - 1) % 3
                v == quad(g, 1) * 262144 + quad(g, 2) * 4096
                     + quad(g, 3) * 64 + quad(g, 4)
            IN  CASE k = 0 -> v \div 65536
                  [] k = 1 -> (v \div 256) % 256
                  [] OTHER -> v % 256
    IN  IF m % 4 = 1 \/ \E i \in 1..m : data[i] \notin Range(Base64Alphabet)
        THEN [ok |-> FALSE, error |-> "InvalidCharacterError"]
        ELSE [ok |-> TRUE, binary |-> [i \in 1..((m * 6) \div 8) |-> byte(i)]]

base64ToBytes(data) ==
    LET binary == atob(data)
    IN  IF ~binary.ok THEN binary ELSE [ok |-> TRUE, bytes |-> binary.binary]

deserializeTx(encoded) ==
    LET binary == atob(encoded)
    IN  IF ~binary.ok THEN binary ELSE [ok |-> TRUE, bytes |-> binary.binary]

serializeTx(t) ==
    LET bytes == SerializeTx(t)
    IN  IF ~bytes.ok THEN bytes ELSE [ok |-> TRUE, text |-> btoa(bytes.bytes)]

----------------------------------------------------------------------------
(* RpcTransport: the client's transport onto a remote endpoint (client.ts) *)

\* normalizeAccount on a value parsed from JSON, which holds no Uint8Array:
\* the account with its owner decoded and its data decoded or emptied, null
\* for anything that is not an account, or the throw of a decoder.
normalizeAccount(value) ==
    IF ~Truthy(value) \/ TypeOf(value) # "object"
    THEN [ok |-> TRUE, value |-> Null]
    ELSE LET lamports == Get(value, "lamports")
             executable == Get(value, "executable")
             rentEpoch == IF Get(value, "rent_epoch") \in {Undefined, Null}
                          THEN Get(value, "rentEpoch")
                          ELSE Get(value, "rent_epoch")
             owner == Get(value, "owner")
             data == Get(value, "data")
         IN  IF /\ TypeOf(lamports) = "number"
                /\ TypeOf(executable) = "boolean"
                /\ TypeOf(rentEpoch) = "number"
                /\ TypeOf(owner) = "string"
                /\ "array" \in DOMAIN data
             THEN LET payload == data.array[1]
                      encoding == data.array[2]
                      bytes == IF encoding = Str("base64")
                               THEN base64ToBytes(payload.string)
                               ELSE [ok |-> TRUE, bytes |-> << >>]
                      key == PublicKeyFromText(owner.string)
                  IN  IF ~bytes.ok THEN bytes
                      ELSE IF ~key.ok THEN key
                      ELSE [ok |-> TRUE,
                            value |-> [lamports |-> lamports.number,
                                       data |-> bytes.bytes,
                                       owner |-> key.key,
                                       executable |-> executable.boolean,
                                       rent_epoch |-> rentEpoch.number]]
             ELSE [ok |-> TRUE, value |-> Null]

\* Mutant: a string result is wrapped like any other value.
normalizeSendResultWrapsStrings(result) ==
    IF Truthy(result) /\ TypeOf(result) = "object" /\ Has(result, "status")
    THEN result
    ELSE Obj([status |-> Str("ok"), value |-> result])

normalizeSendResult(result) ==
    IF Truthy(result) /\ TypeOf(result) = "object" /\ Has(result, "status")
    THEN result
    ELSE IF TypeOf(result) = "string"
    THEN Obj([status |-> Str("ok"), signature |-> result])
    ELSE Obj([status |-> Str("ok"), value |-> result])

\* Mutant: value.err is not looked at.
normalizeSimulationResultAlwaysOk(result) ==
    IF Truthy(result) /\ TypeOf(result) = "object" /\ Has(result, "status")
    THEN result
    ELSE Obj([status |-> Str("ok"), value |-> result])

normalizeSimulationResult(result) ==
    IF Truthy(result) /\ TypeOf(result) = "object" /\ Has(result, "status")
    THEN result
    ELSE LET value == IF result \in {Undefined, Null} THEN Undefined
                      ELSE Get(result, "value")
         IN  IF Truthy(value)
             THEN Obj([status |-> Str(IF Truthy(Get(value, "err")) THEN "err" ELSE "ok"),
                       value |-> result])
             ELSE Obj([status |-> Str("ok"), value |-> result])

\* What fetch(...).then(res => res.json()) settles with: a rejection, or the
\* parsed body.
FetchFailed == [rejected |-> TRUE]

Parsed(json) == [rejected |-> FALSE, json |-> json]

\* Mutant: the result is handed on whatever the error field holds.
rpcCallIgnoresError(response) ==
    IF response.rejected THEN [ok |-> FALSE, error |-> "fetch failed"]
    ELSE IF response.json = Null THEN [ok |-> FALSE, error |-> "TypeError"]
    ELSE [ok |-> TRUE, value |-> Get(response.json, "result")]

\* #rpcCall once the response is in: a truthy json.error throws its message,
\* or "RPC error" when the message is null or undefined; otherwise json.result
\* is handed on. Reading a property of a null body throws a TypeError.
rpcCall(response) ==
    IF response.rejected THEN [ok |-> FALSE, error |-> "fetch failed"]
    ELSE IF response.json = Null THEN [ok |-> FALSE, error |-> "TypeError"]
    ELSE LET error == Get(response.json, "error")
             message == Get(error, "message")
         IN  IF Truthy(error)
             THEN [ok |-> FALSE,
                   error |-> IF message \in {Undefined, Null} THEN "RPC error"
                             ELSE message.string]
             ELSE [ok |-> TRUE, value |-> Get(response.json, "result")]

\* The rest of each operation, run on what #rpcCall resolved with.
latestBlockhash(result) ==
    IF result \in {Undefined, Null} THEN [ok |-> FALSE, error |-> "TypeError"]
    ELSE IF Truthy(Get(result, "blockhash"))
    THEN [ok |-> TRUE, value |-> Get(result, "blockhash")]
    ELSE IF /\ Get(result, "value") \notin {Undefined, Null}
            /\ Truthy(Get(Get(result, "value"), "blockhash"))
    THEN [ok |-> TRUE, value |-> Get(Get(result, "value"), "blockhash")]
    ELSE [ok |-> FALSE, error |-> "RPC did not return a blockhash"]

requestAirdrop(result) == [ok |-> TRUE, value |-> result]

getAccount(result) ==
    IF result \in {Undefined, Null} THEN [ok |-> FALSE, error |-> "TypeError"]
    ELSE normalizeAccount(Get(result, "value"))

sendTransaction(result) == [ok |-> TRUE, value |-> normalizeSendResult(result)]

simulateTransaction(result) == [ok |-> TRUE, value |-> normalizeSimulationResult(result)]

\* The bodies a remote endpoint may answer with: a result or none, an error
\* field or none.
Body(hasResult, result, hasError, error) ==
    Obj([name \in {"jsonrpc"} \cup (IF hasResult THEN {"result"} ELSE {})
                              \cup (IF hasError THEN {"error"} ELSE {}) |->
            CASE name = "result" -> result
              [] name = "error" -> error
              [] OTHER -> Str("2.0")])

\* Error fields: error objects with and without a message, and the values a
\* careless endpoint may put there.
RpcErrors ==
    { Obj([code |-> Num(1), message |-> Str("boom")]),
      Obj([code |-> Num(1), message |-> Str("")]),
      Obj([code |-> Num(1), message |-> Null]),
      Obj([code |-> Num(1)]),
      Str("boom"), Str(""), Num(0), Null }

JsonAccount(payload, encoding) ==
    Obj([lamports |-> Num(1), executable |-> Bool(FALSE), rentEpoch |-> Num(0),
         owner |-> Str(base58Encode(AddrB)),
         data |-> Arr(<< Str(payload), Str(encoding) >>)])

RpcResults(method) ==
    CASE method = "getLatestBlockhash" ->
             { Obj([blockhash |-> Str("hash")]),
               Obj([value |-> Obj([blockhash |-> Str("hash")])]),
               Obj([value |-> Null]),
               Null }
      [] method = "requestAirdrop" -> { Str("sig"), Null }
      [] method = "getAccountInfo" ->
             { Obj([value |-> Null]),
               Obj([value |-> JsonAccount(<< "A", "Q", "=", "=" >>, "base64")]),
               Obj([value |-> JsonAccount(<< "A" >>, "base64")]),
               Obj([value |-> JsonAccount(<< >>, "base58")]),
               Obj([value |-> Obj([lamports |-> Num(1)])]),
               Null }
      [] method = "sendTransaction" ->
             { Str("sig"), Str(""), Num(7), Null, Arr(<< >>),
               Obj([status |-> Str("ok"), signature |-> Str("sig")]),
               Obj([status |-> Str("err")]),
               Obj([status |-> Null]),
               Obj([signature |-> Str("sig")]) }
      [] OTHER ->
             { Str("sig"), Null,
               Obj([status |-> Str("err"), logs |-> Arr(<< >>)]),
               Obj([value |-> Obj([err |-> Null, logs |-> Arr(<< >>)])]),
               Obj([value |-> Obj([err |-> Str("InsufficientFunds")])]),
               Obj([value |-> Obj([err |-> Str("")])]),
               Obj([status |-> Str("ok"),
                    value |-> Obj([err |-> Str("InsufficientFunds")])]),
               Obj([value |-> Null]) }

RpcResponses(method) ==
    { FetchFailed, Parsed(Null) }
    \cup { Parsed(Body(FALSE, Undefined, FALSE, Undefined)) }
    \cup { Parsed(Body(TRUE, result, FALSE, Undefined)) : result \in RpcResults(method) }
    \cup { Parsed(Body(FALSE, Undefined, TRUE, error)) : error \in RpcErrors }
    \cup { Parsed(Body(TRUE, result, TRUE, error)) :
             result \in RpcResults(method), error \in RpcErrors }

SendOptionsChoices == { Undefined, Obj([skipPreflight |-> Bool(TRUE)]) }

\* The transactions of the caller: those handed to the engine, the transfer
\* signed by two keypairs, and a versioned transaction without instructions.
SignedBy(t, signers) ==
    [t EXCEPT !.signatures =
        [k \in DOMAIN signers |->
            [publicKey |-> signers[k].publicKey,
             signature |-> KeypairSign(signers[k], MessageBytes(t).bytes)]]]

EmptyV0Tx ==
    [kind |-> "v0", feePayer |-> AddrA, recentBlockhash |-> GoodBlockhash,
     instructions |-> << >>,
     message |-> compile([payerKey |-> AddrA, recentBlockhash |-> GoodBlockhash,
                          instructions |-> << >>]),
     signatures |-> << >>]

RpcTxs ==
    EngineTxs
    \cup { SignedBy(EngineTx(kind, 1, FALSE),
                    << [publicKey |-> AddrB, secret |-> 23], EngineKeypair >>) :
             kind \in {"legacy", "v0"} }
    \cup { SignedBy(EmptyV0Tx, << EngineKeypair >>) }

\* new RpcTransport(endpoint); the caller holds one transaction.
InitRpc ==
    /\ tx \in RpcTxs
    /\ rpc = None
    /\ ret = NoCall
    /\ msg = None
    /\ compiled = None
    /\ permuted = None
    /\ calls = Idle
    /\ signed = None
    /\ arg = None
    /\ accounts = None

\* Each operation up to its fetch: the request on the wire.
RpcRequest(op, method, params) ==
    /\ rpc = None
    /\ rpc' = [op |-> op, method |-> method, params |-> params]
    /\ ret' = NoReturn
    /\ UNCHANGED <<tx, msg, compiled, permuted, calls, signed, arg, accounts>>

\* serializeTx(tx) throws before anything is sent.
RpcSerializeThrows(op) ==
    /\ rpc = None
    /\ ret' = [op |-> op] @@ serializeTx(tx)
    /\ UNCHANGED <<rpc, tx, msg, compiled, permuted, calls, signed, arg, accounts>>

RpcLatestBlockhash ==
    RpcRequest("RpcTransport.latestBlockhash", "getLatestBlockhash", << >>)

RpcRequestAirdrop(pubkey, lamports) ==
    RpcRequest("RpcTransport.requestAirdrop", "requestAirdrop",
               << Str(base58Encode(pubkey)), Num(lamports) >>)

RpcGetAccount(pubkey) ==
    RpcRequest("RpcTransport.getAccount", "getAccountInfo",
               << Str(base58Encode(pubkey)) >>)

RpcSendTransaction(options) ==
    IF ~serializeTx(tx).ok
    THEN RpcSerializeThrows("RpcTransport.sendTransaction")
    ELSE RpcRequest("RpcTransport.sendTransaction", "sendTransaction",
                    << Str(serializeTx(tx).text),
                       IF options \in {Undefined, Null} THEN EmptyObject ELSE options >>)

RpcSimulateTransaction ==
    IF ~serializeTx(tx).ok
    THEN RpcSerializeThrows("RpcTransport.simulateTransaction")
    ELSE RpcRequest("RpcTransport.simulateTransaction", "simulateTransaction",
                    << Str(serializeTx(tx).text) >>)

\* The response arrives: #rpcCall settles and the operation finishes on its
\* result.
RpcRespond(response) ==
    /\ rpc # None
    /\ LET r == rpcCall(response)
       IN  ret' = [op |-> rpc.op, response |-> response]
                  @@ (IF ~r.ok THEN r
                      ELSE CASE rpc.method = "getLatestBlockhash" -> latestBlockhash(r.value)
                             [] rpc.method = "requestAirdrop" -> requestAirdrop(r.value)
                             [] rpc.method = "getAccountInfo" -> getAccount(r.value)
                             [] rpc.method = "sendTransaction" -> sendTransaction(r.value)
                             [] OTHER -> simulateTransaction(r.value))
    /\ rpc' = None
    /\ UNCHANGED <<tx, msg, compiled, permuted, calls, signed, arg, accounts>>

\* encodeTransaction(tx)
EncodeTransaction ==
    /\ rpc = None
    /\ ret' = [op |-> "encodeTransaction"] @@ serializeTx(tx)
    /\ UNCHANGED <<rpc, tx, msg, compiled, permuted, calls, signed, arg, accounts>>

\* decodeBase64Transaction(encoded), on the text encodeTransaction returned
DecodeBase64Transaction ==
    /\ rpc = None
    /\ ret.op = "encodeTransaction"
    /\ ret.ok
    /\ ret' = [op |-> "decodeBase64Transaction", encoded |-> ret.text]
              @@ deserializeTx(ret.text)
    /\ UNCHANGED <<rpc, tx, msg, compiled, permuted, calls, signed, arg, accounts>>

NextRpc ==
    \/ EncodeTransaction
    \/ DecodeBase64Transaction
    \/ RpcLatestBlockhash
    \/ \E pubkey \in EngineAddresses, lamports \in EngineAmounts :
           RpcRequestAirdrop(pubkey, lamports)
    \/ \E pubkey \in EngineAddresses : RpcGetAccount(pubkey)
    \/ \E options \in SendOptionsChoices : RpcSendTransaction(options)
    \/ RpcSimulateTransaction
    \/ rpc # None /\ \E response \in RpcResponses(rpc.method) : RpcRespond(response)

SpecRpc == InitRpc /\ [][NextRpc]_vars

----------------------------------------------------------------------------
(* Claims on the remote transport *)

RpcOps ==
    { "RpcTransport.latestBlockhash", "RpcTransport.requestAirdrop",
      "RpcTransport.getAccount", "RpcTransport.sendTransaction",
      "RpcTransport.simulateTransaction" }

\* The error field of the response an operation finished on, undefined for a
\* body without one.
ResponseError ==
    IF "response" \in DOMAIN ret /\ ~ret.response.rejected /\ ret.response.json # Null
    THEN Get(ret.response.json, "error")
    ELSE Undefined

\* The result #rpcCall resolved with.
ResponseResult == Get(ret.response.json, "result")

\* C19: every operation of the remote transport rejects, and returns nothing,
\* when the body of the response has an error field that is not null, with
\* error.message as the message of the thrown error when there is one.
C19_ErrorFieldRejects ==
    (ret.op \in RpcOps /\ ResponseError \notin {Undefined, Null}) =>
        /\ ~ret.ok
        /\ Get(ResponseError, "message") \notin {Undefined, Null} =>
               ret.error = Get(ResponseError, "message").string

\* C19: every operation of the remote transport rejects, and returns nothing,
\* when the body of the response has a truthy error field, which every error
\* object is: the thrown error carries error.message when that is a string,
\* the empty one included, and "RPC error" otherwise. An operation that
\* returns has had a response whose error field is absent, null, "" or 0.
C19_TruthyErrorRejects ==
    ret.op \in RpcOps =>
        /\ Truthy(ResponseError) =>
               /\ ~ret.ok
               /\ ret.error = IF Get(ResponseError, "message") \in {Undefined, Null}
                              THEN "RPC error"
                              ELSE Get(ResponseError, "message").string
        /\ ("response" \in DOMAIN ret /\ ret.ok) =>
               ResponseError \in {Undefined, Null, Str(""), Num(0)}

\* sendTransaction rejects with the message of the error object of a response
\* that also holds a result.
C19_Witness ==
    /\ ret.op = "RpcTransport.sendTransaction"
    /\ ResponseError = Obj([code |-> Num(1), message |-> Str("boom")])
    /\ ResponseResult = Str("sig")
    /\ ~ret.ok
    /\ ret.error = "boom"

\* C20: a sendTransaction of the remote transport that returns has turned a
\* string result s into {status: "ok", signature: s}, has returned a result
\* object with a status field as it is, and has wrapped every other result as
\* {status: "ok", value: result}.
C20_SendResultNormalized ==
    (ret.op = "RpcTransport.sendTransaction" /\ "response" \in DOMAIN ret /\ ret.ok) =>
        LET result == ResponseResult
        IN  IF TypeOf(result) = "string"
            THEN ret.value = Obj([status |-> Str("ok"), signature |-> result])
            ELSE IF Has(result, "status")
            THEN ret.value = result
            ELSE ret.value = Obj([status |-> Str("ok"), value |-> result])

\* sendTransaction returns on a string result.
C20_Witness ==
    /\ ret.op = "RpcTransport.sendTransaction"
    /\ "response" \in DOMAIN ret
    /\ ret.ok
    /\ ResponseResult = Str("sig")
    /\ ret.value = Obj([status |-> Str("ok"), signature |-> Str("sig")])

\* C21: a simulateTransaction of the remote transport that returns on a result
\* object with a value.err field, a result with a status field of its own
\* included, answers with status "err" when value.err is truthy and with
\* status "ok" when it is not.
C21_ValueErrDecidesStatus ==
    (ret.op = "RpcTransport.simulateTransaction" /\ "response" \in DOMAIN ret /\ ret.ok) =>
        LET result == ResponseResult
            value == IF result \in {Undefined, Null} THEN Undefined
                     ELSE Get(result, "value")
        IN  (value \notin {Undefined, Null} /\ Has(value, "err")) =>
                Get(ret.value, "status")
                    = Str(IF Truthy(Get(value, "err")) THEN "err" ELSE "ok")

\* C21: a simulateTransaction of the remote transport that returns has
\* returned a result object with a status field of its own as it is, whatever
\* its value.err; it has wrapped every other result as {status, value: result},
\* with status "err" when the result has a value whose err is truthy and with
\* status "ok" otherwise, a result without a value included.
C21_ValueErrDecidesStatusUnlessStatus ==
    (ret.op = "RpcTransport.simulateTransaction" /\ "response" \in DOMAIN ret /\ ret.ok) =>
        LET result == ResponseResult
            value == IF result \in {Undefined, Null} THEN Undefined
                     ELSE Get(result, "value")
            err == IF value \in {Undefined, Null} THEN Undefined ELSE Get(value, "err")
        IN  IF result \notin {Undefined, Null} /\ Has(result, "status")
            THEN ret.value = result
            ELSE ret.value = Obj([status |-> Str(IF Truthy(err) THEN "err" ELSE "ok"),
                                  value |-> result])

\* simulateTransaction answers with status "err" on a result whose value.err
\* names a failure.
C21_Witness ==
    /\ ret.op = "RpcTransport.simulateTransaction"
    /\ "response" \in DOMAIN ret
    /\ ret.ok
    /\ ResponseResult = Obj([value |-> Obj([err |-> Str("InsufficientFunds")])])
    /\ Get(ret.value, "status") = Str("err")

\* C22: the text encodeTransaction returns for a signed transaction decodes,
\* by atob and by decodeBase64Transaction, to the bytes of tx.serialize(), and
\* so does the text that sendTransaction and simulateTransaction of the remote
\* transport put on the wire.
C22_Base64RoundTrip ==
    /\ (ret.op = "encodeTransaction" /\ ret.ok) =>
           /\ atob(ret.text).ok
           /\ atob(ret.text).binary = SerializeTx(tx).bytes
    /\ ret.op = "decodeBase64Transaction" =>
           /\ ret.ok
           /\ ret.bytes = SerializeTx(tx).bytes
    /\ (rpc # None /\ rpc.method \in {"sendTransaction", "simulateTransaction"}) =>
           /\ deserializeTx(rpc.params[1].string).ok
           /\ deserializeTx(rpc.params[1].string).bytes = SerializeTx(tx).bytes

\* decodeBase64Transaction has decoded a transaction whose length is not a
\* multiple of three, so that its text ends in padding.
C22_Witness ==
    /\ ret.op = "decodeBase64Transaction"
    /\ ret.ok
    /\ Len(ret.bytes) % 3 # 0
    /\ ret.encoded[Len(ret.encoded)] = "="
    /\ ret.bytes = SerializeTx(tx).bytes

\* C23: new PublicKey throws, and no PublicKey comes to exist, on a byte form
\* whose length is not 32, on the base-58 text of such a byte form and on a
\* text with a character outside the alphabet; on 32 bytes and on their text
\* it yields the PublicKey of these bytes; every PublicKey holds 32 bytes.
C23_PublicKeyConstruction ==
    /\ ret.op = "new PublicKey" =>
           /\ ret.ok <=> "key" \in DOMAIN ret
           /\ "publicKeyBytes" \in DOMAIN arg =>
                  IF Len(arg.publicKeyBytes) = 32
                  THEN ret.ok /\ ret.key = arg.publicKeyBytes
                  ELSE ~ret.ok /\ ret.error = "PublicKey must be 32 bytes"
           /\ "publicKeyText" \in DOMAIN arg =>
                  /\ (\E i \in DOMAIN arg.publicKeyText :
                          arg.publicKeyText[i] \notin Range(ALPHABET)) =>
                         ~ret.ok /\ ret.error = "invalid base58 character"
                  /\ \A bytes \in PublicKeyBytes :
                         arg.publicKeyText = base58Encode(bytes) =>
                             IF Len(bytes) = 32
                             THEN ret.ok /\ ret.key = bytes
                             ELSE ~ret.ok /\ ret.error = "PublicKey must be 32 bytes"
    /\ "key" \in DOMAIN ret => Len(ret.key) = 32
    /\ ret.op = "toBytes" => ret.bytes = ret.key

\* new PublicKey has thrown on a text of the alphabet that decodes to 33 bytes.
C23_Witness ==
    /\ ret.op = "new PublicKey"
    /\ "publicKeyText" \in DOMAIN arg
    /\ arg.publicKeyText = base58Encode(AddrB \o <<1>>)
    /\ ~ret.ok
    /\ ret.error = "PublicKey must be 32 bytes"

\* C24: the step in which a sign() call fails, by a rejected signing request
\* or by a blockhash that does not decode to 32 bytes, changes nothing of the
\* transaction, so that serialize() answers after it as before it; only a
\* sign() that returns changes the stored signatures, to one signature per
\* keypair of that call; and while a call is in flight and no other call has
\* returned since it was made, the stored signatures are those of the moment
\* it was made.
C24_FailedSignStoresNothing ==
    /\ [][/\ (ret'.op = "sign" /\ ~ret'.ok) =>
                 /\ tx' = tx
                 /\ SerializeTx(tx') = SerializeTx(tx)
          /\ tx'.signatures # tx.signatures =>
                 /\ ret'.op = "sign"
                 /\ ret'.ok
                 /\ Len(tx'.signatures) = Len(ret'.signers)]_vars
    /\ [](\A c \in DOMAIN calls :
              signed = calls[c].since => tx.signatures = calls[c].stored)

\* A sign() with two keypairs has failed on its second signing request after
\* the first was fulfilled, and the signature of an earlier sign() with one
\* keypair is still the one stored.
C24_Witness ==
    /\ ret.op = "sign"
    /\ ~ret.ok
    /\ ret.error = "signing failed"
    /\ Len(ret.settled) = 1
    /\ calls = Idle
    /\ signed # None
    /\ Len(signed.signers) = 1
    /\ Len(tx.signatures) = 1
    /\ tx.signatures[1].publicKey = AddrA

\* C25: with sign() calls in flight at the same time, the stored signatures
\* are at every moment the complete list of the call that returned last, one
\* signature per keypair in the order of that call and all over its message,
\* or empty when none has returned; for a call in flight they are those of the
\* moment it was made unless another call has returned since; and the call
\* whose last signing request is fulfilled stores its own list, whatever the
\* other calls in flight have got so far.
C25_ConcurrentSignsNeverMix ==
    /\ [](IF signed = None THEN tx.signatures = << >>
          ELSE tx.signatures
                   = [k \in DOMAIN signed.signers |->
                         [publicKey |-> signed.signers[k].publicKey,
                          signature |-> KeypairSign(signed.signers[k], signed.message)]])
    /\ [](\A c \in DOMAIN calls :
              tx.signatures # calls[c].stored => signed # calls[c].since)
    /\ [][(ret'.op = "sign" /\ ret'.ok) =>
              /\ signed'.signers = ret'.signers
              /\ signed'.message = ret'.message
              /\ ret'.settled # << >> =>
                     \E c \in DOMAIN calls :
                         /\ calls[c].signers = ret'.signers
                         /\ calls[c].settled = Front(ret'.settled)
                         /\ calls' = Remove(calls, c)]_vars

\* One call has returned and stored its single signature while another call,
\* made before that return, has one of its two signing requests fulfilled.
C25_Witness ==
    /\ Len(calls) = 1
    /\ Len(calls[1].signers) = 2
    /\ Len(calls[1].settled) = 1
    /\ signed # None
    /\ signed # calls[1].since
    /\ Len(signed.signers) = 1
    /\ Len(tx.signatures) = 1
    /\ tx.signatures # calls[1].stored

\* C26: a compilation leaves the message it was handed as it was: the list of
\* instructions, the order of the account references of each and their
\* isSigner and isWritable flags, also those of an address whose flags the
\* merge has raised; and compiling the message again gives the compiled
\* message it gave before.
C26_CompileKeepsInputs ==
    /\ [][ret'.op = "compileToV0Message" => msg' = msg]_vars
    /\ [](compiled # None => compile(msg) = compiled)

\* A message was compiled in which an address is first referenced as no
\* signer or readonly and later as a signer or writable, so that the merge
\* has raised its flags.
C26_Witness ==
    /\ compiled # None
    /\ \E i, i2 \in DOMAIN msg.instructions :
         \E j \in DOMAIN msg.instructions[i].keys,
            j2 \in DOMAIN msg.instructions[i2].keys :
             /\ i < i2 \/ (i = i2 /\ j < j2)
             /\ msg.instructions[i].keys[j].pubkey = msg.instructions[i2].keys[j2].pubkey
             /\ msg.instructions[i].keys[j].pubkey # msg.payerKey
             /\ \A i0 \in DOMAIN msg.instructions :
                    msg.instructions[i0].programId # msg.instructions[i].keys[j].pubkey
             /\ ~msg.instructions[i].keys[j].isSigner
             /\ msg.instructions[i2].keys[j2].isSigner

====
